---- MODULE Spec2Model ----
(***************************************************************************)
(* Rules-evaluation core of the menu / booking backend: tax inheritance,   *)
(* the pricing engine, add-on selection and the booking conflict check.    *)
(* The stores (Category, Subcategory, Item, Booking collections) are the   *)
(* state; each service method is one action.                               *)
(***************************************************************************)
EXTENDS Integers, Sequences, FiniteSets, TLC

VARIABLES
    categories,     \* Category collection: id -> None or Some(document)
    subcategories,  \* Subcategory collection
    items,          \* Item collection
    addonGroups,    \* AddonGroup collection
    bookings,       \* Booking collection: the sequence of stored bookings
    requests,       \* booking create requests between their check and their write
    now,            \* the clock new Date() reads, in ticks
    response        \* what the last service call returned or threw

vars == <<categories, subcategories, items, addonGroups, bookings, requests, now, response>>

(***************************************************************************)
(* Values                                                                  *)
(***************************************************************************)

\* An optional value (a field that may be null or undefined, a findById that
\* may find nothing): None, or Some(v).
None == <<>>
Some(v) == <<v>>
Val(opt) == opt[1]

\* x || 0
OrZero(opt) == IF opt = None THEN 0 ELSE Val(opt)

\* An amount of money is a whole number of thousandths: Unit stands for 1.00
\* and Hundredth for 0.01.  A price is any number >= 0, so it may have a
\* third decimal.
Unit == 1000
Hundredth == Unit \div 100

SeqToSet(s) == {s[k] : k \in DOMAIN s}

Min2(a, b) == IF a <= b THEN a ELSE b

(***************************************************************************)
(* "HH:mm" strings.  A time string is the sequence of its characters,      *)
(* each character a code that keeps the ASCII order: '0'..'9' are 0..9 and *)
(* ':' (ASCII 58, just above '9') is 10.                                   *)
(***************************************************************************)
Colon == 10

\* T(h1, h2, m1, m2) is the five-character string "h1h2:m1m2";
\* T1(h, m1, m2) the four-character "h:m1m2" that the pattern also accepts.
T(h1, h2, m1, m2) == <<h1, h2, Colon, m1, m2>>
T1(h, m1, m2) == <<h, Colon, m1, m2>>

\* /^([01]?[0-9]|2[0-3]):[0-5][0-9]$/
TimePattern(s) ==
    \/ /\ Len(s) = 5
       /\ s[3] = Colon
       /\ \/ s[1] \in {0, 1} /\ s[2] \in 0..9
          \/ s[1] = 2 /\ s[2] \in 0..3
       /\ s[4] \in 0..5 /\ s[5] \in 0..9
    \/ /\ Len(s) = 4
       /\ s[2] = Colon
       /\ s[1] \in 0..9
       /\ s[3] \in 0..5 /\ s[4] \in 0..9

\* Binary string comparison, as MongoDB's $lt/$lte/$gt/$gte compare strings.
RECURSIVE StrLt(_, _)
StrLt(a, b) ==
    IF Len(b) = 0 THEN FALSE
    ELSE IF Len(a) = 0 THEN TRUE
    ELSE IF a[1] < b[1] THEN TRUE
    ELSE IF a[1] > b[1] THEN FALSE
    ELSE StrLt(Tail(a), Tail(b))

StrLte(a, b) == a = b \/ StrLt(a, b)
StrGt(a, b) == StrLt(b, a)
StrGte(a, b) == a = b \/ StrLt(b, a)

\* time.split(':').map(Number), then hours * 60 + minutes
RECURSIVE DigitsToNumber(_)
DigitsToNumber(d) ==
    IF Len(d) = 0 THEN 0
    ELSE DigitsToNumber(SubSeq(d, 1, Len(d) - 1)) * 10 + d[Len(d)]

ColonAt(s) == CHOOSE k \in DOMAIN s : s[k] = Colon

toMinutes(time) ==
    LET c == ColonAt(time)
        hours == DigitsToNumber(SubSeq(time, 1, c - 1))
        minutes == DigitsToNumber(SubSeq(time, c + 1, Len(time)))
    IN hours * 60 + minutes

(***************************************************************************)
(* Array.prototype.sort with a comparator is stable: an insertion sort     *)
(* that moves an element only past strictly greater keys.                  *)
(***************************************************************************)
RECURSIVE InsertIndex(_, _, _)
InsertIndex(sorted, x, keys) ==
    IF Len(sorted) = 0 THEN <<x>>
    ELSE IF keys[sorted[Len(sorted)]] <= keys[x] THEN Append(sorted, x)
    ELSE Append(InsertIndex(SubSeq(sorted, 1, Len(sorted) - 1), x, keys),
                sorted[Len(sorted)])

\* The indices of keys in ascending order of key, equal keys in their given order.
RECURSIVE SortedIndices(_, _)
SortedIndices(keys, n) ==
    IF n = 0 THEN <<>>
    ELSE InsertIndex(SortedIndices(keys, n - 1), n, keys)

StableSort(s, keys) ==
    LET order == SortedIndices(keys, Len(s))
    IN [k \in 1..Len(s) |-> s[order[k]]]

\* The first index whose flag is set, or 0 (for ... if ... break).
FirstIndex(flags) ==
    IF \E k \in DOMAIN flags : flags[k]
    THEN CHOOSE k \in DOMAIN flags : flags[k] /\ \A j \in 1..(k - 1) : ~flags[j]
    ELSE 0

(***************************************************************************)
(* Pricing engine.  A pricing config is                                    *)
(*   [type, base_price, tiers, discount, dynamic_rules, default_price]     *)
(* with base_price, discount and default_price optional and the two arrays *)
(* empty when not given.                                                   *)
(***************************************************************************)
PRICING_TYPES == {"STATIC", "TIERED", "COMPLIMENTARY", "DISCOUNTED", "DYNAMIC"}
DISCOUNT_TYPES == {"FLAT", "PERCENTAGE"}

\* A pricing_rule_applied string: its fixed text and the numbers put in it.
RuleLabel(text, a, b) == [text |-> text, a |-> a, b |-> b]

PriceResult(type, rule, details, unit, quantity, base, discount, price) ==
    [pricing_type |-> type, pricing_rule_applied |-> rule, details |-> details,
     unit_price |-> unit, quantity |-> quantity, base_price |-> base,
     discount_amount |-> discount, calculated_price |-> price]

calculateStaticPrice(pricingConfig, quantity) ==
    LET basePrice == OrZero(pricingConfig.base_price)
        totalPrice == basePrice * quantity
    IN PriceResult("STATIC", RuleLabel("Fixed Price", 0, 0), None,
                   basePrice, quantity, totalPrice, 0, totalPrice)

\* [...tiers].sort((a, b) => a.min_quantity - b.min_quantity)
SortTiers(tiers) ==
    StableSort(tiers, [k \in DOMAIN tiers |-> tiers[k].min_quantity])

MutantTierContainsExclusive(tier, quantity) ==
    quantity > tier.min_quantity /\ quantity < tier.max_quantity

\* quantity >= tier.min_quantity && quantity <= tier.max_quantity
TierContains(tier, quantity) ==
    quantity >= tier.min_quantity /\ quantity <= tier.max_quantity

\* for (const tier of sortedTiers) { if (...) { applicableTier = tier; break; } }
MatchTier(sortedTiers, quantity) ==
    LET k == FirstIndex([j \in DOMAIN sortedTiers |->
                            TierContains(sortedTiers[j], quantity)])
    IN IF k = 0 THEN None ELSE Some(sortedTiers[k])

\* The price-only tier { price: pricingConfig.default_price || 0 }.
DefaultTier(pricingConfig) ==
    [min_quantity |-> 0, max_quantity |-> 0 - 1,
     price |-> OrZero(pricingConfig.default_price)]

MutantFallbackFirstTier(sortedTiers, pricingConfig) ==
    IF Len(sortedTiers) > 0 THEN sortedTiers[1] ELSE DefaultTier(pricingConfig)

\* sortedTiers[sortedTiers.length - 1] || { price: pricingConfig.default_price || 0 }
FallbackTier(sortedTiers, pricingConfig) ==
    IF Len(sortedTiers) > 0 THEN sortedTiers[Len(sortedTiers)]
    ELSE DefaultTier(pricingConfig)

calculateTieredPrice(pricingConfig, quantity) ==
    LET sortedTiers == SortTiers(pricingConfig.tiers)
        matched == MatchTier(sortedTiers, quantity)
        applicableTier == IF matched = None
                          THEN FallbackTier(sortedTiers, pricingConfig)
                          ELSE Val(matched)
        tierName == IF matched = None
                    THEN RuleLabel("Default/Overflow", 0, 0)
                    ELSE RuleLabel("Tier", Val(matched).min_quantity,
                                   Val(matched).max_quantity)
        unitPrice == applicableTier.price
        totalPrice == unitPrice * quantity
    IN PriceResult("TIERED", tierName, Some(applicableTier),
                   unitPrice, quantity, totalPrice, 0, totalPrice)

calculateComplimentaryPrice ==
    PriceResult("COMPLIMENTARY", RuleLabel("Complimentary", 0, 0), None, 0, 1, 0, 0, 0)

MutantNoDiscountClamp(discountAmount, totalBase) == discountAmount

\* Math.min(discountAmount, totalBase)
ClampDiscount(discountAmount, totalBase) == Min2(discountAmount, totalBase)

calculateDiscountedPrice(pricingConfig, quantity) ==
    LET basePrice == OrZero(pricingConfig.base_price)
        totalBase == basePrice * quantity
        hasDiscount == pricingConfig.discount # None
        discount == Val(pricingConfig.discount)
        rawDiscount ==
            IF ~hasDiscount THEN 0
            ELSE IF discount.type = "FLAT" THEN discount.value
            ELSE IF discount.type = "PERCENTAGE"
                 THEN (totalBase * discount.value) \div 100
            ELSE 0
        description ==
            IF ~hasDiscount THEN RuleLabel("No discount", 0, 0)
            ELSE IF discount.type = "FLAT"
                 THEN RuleLabel("Flat discount", discount.value, 0)
            ELSE IF discount.type = "PERCENTAGE"
                 THEN RuleLabel("% off", discount.value, 0)
            ELSE RuleLabel("No discount", 0, 0)
        discountAmount == ClampDiscount(rawDiscount, totalBase)
        finalPrice == totalBase - discountAmount
    IN PriceResult("DISCOUNTED", description, pricingConfig.discount,
                   basePrice, quantity, totalBase, discountAmount, finalPrice)

\* A Date: its local day of week, hours and minutes.  An Invalid Date has NaN
\* parts: valid is FALSE and every comparison with its time is false.
InvalidDate == [valid |-> FALSE, day |-> 0, hours |-> 0, minutes |-> 0]
DateTime(day, hours, minutes) ==
    [valid |-> TRUE, day |-> day, hours |-> hours, minutes |-> minutes]

\* `${String(hours).padStart(2, '0')}:${String(minutes).padStart(2, '0')}`
CurrentTimeString(date) ==
    T(date.hours \div 10, date.hours % 10, date.minutes \div 10, date.minutes % 10)

MutantTimeInRangeNoWrap(time, startTime, endTime) ==
    toMinutes(time) >= toMinutes(startTime) /\ toMinutes(time) < toMinutes(endTime)

isTimeInRange(time, startTime, endTime) ==
    LET current == toMinutes(time)
        start == toMinutes(startTime)
        end == toMinutes(endTime)
    IN IF end < start
       THEN current >= start \/ current < end
       ELSE current >= start /\ current < end

MutantRulesUnsorted(rules) == rules

\* [...rules].sort((a, b) => (b.priority || 0) - (a.priority || 0))
SortRules(rules) ==
    StableSort(rules, [k \in DOMAIN rules |-> 0 - rules[k].priority])

RuleMatches(rule, datetime) ==
    LET isDayMatch == rule.days = {} \/ datetime.day \in rule.days
        isTimeMatch == isTimeInRange(CurrentTimeString(datetime),
                                     rule.start_time, rule.end_time)
    IN datetime.valid /\ isDayMatch /\ isTimeMatch

calculateDynamicPrice(pricingConfig, quantity, datetime) ==
    LET sortedRules == SortRules(pricingConfig.dynamic_rules)
        k == FirstIndex([j \in DOMAIN sortedRules |->
                            RuleMatches(sortedRules[j], datetime)])
        unitPrice == IF k = 0 THEN OrZero(pricingConfig.default_price)
                     ELSE sortedRules[k].price
        ruleName == IF k = 0 THEN RuleLabel("Default Price", 0, 0)
                    ELSE RuleLabel(sortedRules[k].name, 0, 0)
        totalPrice == unitPrice * quantity
    IN PriceResult("DYNAMIC", ruleName,
                   IF k = 0 THEN None ELSE Some(sortedRules[k]),
                   unitPrice, quantity, totalPrice, 0, totalPrice)

\* PricingEngine.calculatePrice: the switch on pricingConfig.type.  An unknown
\* type throws: the result is then pricing_type "Error".
PricingError ==
    PriceResult("Error", RuleLabel("Unknown pricing type", 0, 0), None, 0, 0, 0, 0, 0)

calculatePrice(pricingConfig, quantity, datetime) ==
    CASE pricingConfig.type = "STATIC" -> calculateStaticPrice(pricingConfig, quantity)
      [] pricingConfig.type = "TIERED" -> calculateTieredPrice(pricingConfig, quantity)
      [] pricingConfig.type = "COMPLIMENTARY" -> calculateComplimentaryPrice
      [] pricingConfig.type = "DISCOUNTED" -> calculateDiscountedPrice(pricingConfig, quantity)
      [] pricingConfig.type = "DYNAMIC" ->
            calculateDynamicPrice(pricingConfig, quantity, datetime)
      [] OTHER -> PricingError

MutantOverlapStrict(a, b) == a.max_quantity > b.min_quantity

\* tiers[i].max_quantity >= tiers[i + 1].min_quantity, on the sorted tiers
AdjacentTiersOverlap(a, b) == a.max_quantity >= b.min_quantity

\* The pairs of adjacent sorted tiers reported as overlapping.
TierOverlapErrors(tiers) ==
    LET sorted == SortTiers(tiers)
    IN {RuleLabel("Tier overlap detected between tiers", i, i + 1) :
            i \in {j \in 1..(Len(sorted) - 1) :
                      AdjacentTiersOverlap(sorted[j], sorted[j + 1])}}

Error(text) == RuleLabel(text, 0, 0)

\* errors is kept as the set of its messages; valid is errors.length === 0.
validatePricingConfig(pricingConfig) ==
    LET NoBase == \/ pricingConfig.base_price = None
                  \/ Val(pricingConfig.base_price) < 0
        errors ==
            CASE pricingConfig.type = "" -> {Error("Pricing type is required")}
              [] pricingConfig.type = "STATIC" ->
                    IF NoBase
                    THEN {Error("Static pricing requires a valid base_price")} ELSE {}
              [] pricingConfig.type = "TIERED" ->
                    IF Len(pricingConfig.tiers) = 0
                    THEN {Error("Tiered pricing requires at least one tier")}
                    ELSE TierOverlapErrors(pricingConfig.tiers)
              [] pricingConfig.type = "DISCOUNTED" ->
                    (IF NoBase
                     THEN {Error("Discounted pricing requires a valid base_price")}
                     ELSE {})
                    \cup (IF pricingConfig.discount = None
                          THEN {Error("Discounted pricing requires discount configuration")}
                          ELSE {})
              [] pricingConfig.type = "DYNAMIC" ->
                    (IF Len(pricingConfig.dynamic_rules) = 0
                     THEN {Error("Dynamic pricing requires at least one rule")} ELSE {})
                    \cup (IF pricingConfig.default_price = None
                          THEN {Error("Dynamic pricing requires a default_price")} ELSE {})
              [] pricingConfig.type = "COMPLIMENTARY" -> {}
              [] OTHER -> {Error("Unknown pricing type")}
    IN [valid |-> errors = {}, errors |-> errors]

(***************************************************************************)
(* Tax engine.  The stores map an id to None (no such document) or to      *)
(* Some(document).  The engine is handed populated documents: a reference  *)
(* field holds None or Some(the referenced document's selected fields).    *)
(***************************************************************************)
NoId == "none"

TaxResult(applicable, percentage, from, source) ==
    [tax_applicable |-> applicable, tax_percentage |-> percentage,
     inherited_from |-> from, source_id |-> source]

\* doc.tax_applicable ? (doc.tax_percentage || 0) : 0, for an explicit setting
OwnPercentage(doc) ==
    IF Val(doc.tax_applicable) THEN OrZero(doc.tax_percentage) ELSE 0

MutantCategoryTaxIgnored(category) == TaxResult(FALSE, 0, "default", NoId)

\* The category branch: a category's tax_applicable is a plain boolean.
CategoryTax(category) ==
    TaxResult(category.tax_applicable,
              IF category.tax_applicable THEN OrZero(category.tax_percentage) ELSE 0,
              "category", category.id)

DefaultTax == TaxResult(FALSE, 0, "default", NoId)

\* TaxEngine.getEffectiveTax(item), item populated.  subcategory.category is
\* None when the populate's select left the field out: typeof undefined is
\* not 'object', and Category.findById(undefined) finds nothing.
getEffectiveTax(item) ==
    IF item.tax_applicable # None
    THEN TaxResult(Val(item.tax_applicable), OwnPercentage(item), "item", item.id)
    ELSE IF /\ item.subcategory # None
            /\ Val(item.subcategory).tax_applicable # None
    THEN TaxResult(Val(Val(item.subcategory).tax_applicable),
                   OwnPercentage(Val(item.subcategory)),
                   "subcategory", Val(item.subcategory).id)
    ELSE IF /\ item.subcategory # None
            /\ Val(item.subcategory).category # None
    THEN CategoryTax(Val(Val(item.subcategory).category))
    ELSE IF item.category # None
    THEN CategoryTax(Val(item.category))
    ELSE DefaultTax

\* TaxEngine.getSubcategoryTax(subcategory), subcategory populated.
getSubcategoryTax(subcategory) ==
    IF subcategory.tax_applicable # None
    THEN TaxResult(Val(subcategory.tax_applicable), OwnPercentage(subcategory),
                   "subcategory", subcategory.id)
    ELSE IF subcategory.category # None
    THEN CategoryTax(Val(subcategory.category))
    ELSE DefaultTax

\* Math.round(x) of x = n / d (n >= 0): half rounds up.
RoundDiv(n, d) == (2 * n + d) \div (2 * d)

\* TaxEngine.calculateTax(amount, taxPercentage).  taxAmount is
\* amount * taxPercentage / 100, and Math.round(x * 100) / 100 of an amount
\* x is Hundredth * Math.round(x / Hundredth): the tax amount is rounded
\* alone, and the total is rounded from the amount plus the unrounded tax.
calculateTax(amount, taxPercentage) ==
    [original_amount |-> amount,
     tax_percentage |-> taxPercentage,
     tax_amount |-> Hundredth * RoundDiv(amount * taxPercentage, Unit),
     total_with_tax |->
        Hundredth * RoundDiv(amount * 100 + amount * taxPercentage, Unit)]

(***************************************************************************)
(* Add-on group methods.  A group is                                       *)
(*   [id, type, selection_type, min_selections, max_selections, addons,    *)
(*    is_active], addons a sequence of [id, price, is_active].             *)
(***************************************************************************)
Message(text, n, name) == [text |-> text, a |-> n, b |-> 0, name |-> name]

IsActiveAddon(group, id) ==
    \E k \in DOMAIN group.addons :
        group.addons[k].id = id /\ group.addons[k].is_active

\* selectedAddonIds.filter(id => activeAddons.some(a => a._id.toString() === id))
ValidSelections(group, selectedAddonIds) ==
    SelectSeq(selectedAddonIds, LAMBDA id : IsActiveAddon(group, id))

validateSelections(group, selectedAddonIds) ==
    LET n == Len(ValidSelections(group, selectedAddonIds))
    IN IF n < group.min_selections
       THEN [valid |-> FALSE,
             error |-> Message("Minimum selection(s) required", group.min_selections, group.id)]
       ELSE IF n > group.max_selections
       THEN [valid |-> FALSE,
             error |-> Message("Maximum selection(s) allowed", group.max_selections, group.id)]
       ELSE [valid |-> TRUE, error |-> Message("", 0, "")]

\* for (const addon of this.addons) if (selected.includes(id) && addon.is_active)
RECURSIVE SumSelected(_, _, _)
SumSelected(addons, selectedAddonIds, k) ==
    IF k = 0 THEN 0
    ELSE SumSelected(addons, selectedAddonIds, k - 1)
         + (IF addons[k].id \in SeqToSet(selectedAddonIds) /\ addons[k].is_active
            THEN addons[k].price ELSE 0)

calculateSelectedPrice(group, selectedAddonIds) ==
    SumSelected(group.addons, selectedAddonIds, Len(group.addons))

(***************************************************************************)
(* Populated documents, as Item.findById(id).populate(...) returns them.   *)
(***************************************************************************)
FindById(store, id) == IF id \in DOMAIN store THEN store[id] ELSE None

\* populate('category', 'name tax_applicable tax_percentage')
PopulateCategory(id) ==
    LET found == FindById(categories, id)
    IN IF found = None THEN None
       ELSE Some([id |-> id,
                  tax_applicable |-> Val(found).tax_applicable,
                  tax_percentage |-> Val(found).tax_percentage])

\* populate('subcategory', 'name tax_applicable tax_percentage'): the
\* subcategory's category field is not selected.
PopulateSubcategorySelected(id) ==
    LET found == FindById(subcategories, id)
    IN IF found = None THEN None
       ELSE Some([id |-> id,
                  tax_applicable |-> Val(found).tax_applicable,
                  tax_percentage |-> Val(found).tax_percentage,
                  category |-> None])

\* Subcategory.findById(id).populate('category', 'name tax_applicable tax_percentage')
PopulateSubcategoryWithCategory(id) ==
    LET found == FindById(subcategories, id)
    IN IF found = None THEN None
       ELSE Some([id |-> id,
                  tax_applicable |-> Val(found).tax_applicable,
                  tax_percentage |-> Val(found).tax_percentage,
                  category |-> PopulateCategory(Val(found).category)])

\* populate('addon_groups'): the groups found, in the item's order.
PopulateAddonGroups(ids) ==
    LET present == SelectSeq(ids, LAMBDA g : FindById(addonGroups, g) # None)
    IN [k \in DOMAIN present |-> Val(addonGroups[present[k]])]

PopulateItem(id) ==
    LET found == FindById(items, id)
        doc == Val(found)
    IN IF found = None THEN None
       ELSE Some([id |-> id,
                  tax_applicable |-> doc.tax_applicable,
                  tax_percentage |-> doc.tax_percentage,
                  category |-> PopulateCategory(doc.category),
                  subcategory |-> PopulateSubcategorySelected(doc.subcategory),
                  addon_groups |-> PopulateAddonGroups(doc.addon_groups),
                  pricing |-> doc.pricing,
                  is_active |-> doc.is_active,
                  is_bookable |-> doc.is_bookable,
                  availability_slots |-> doc.availability_slots])

(***************************************************************************)
(* Service results: what a call returned (status 200/201) or threw.        *)
(***************************************************************************)
Thrown(op, status, message) ==
    [op |-> op, status |-> status, message |-> message]

\* throw { status, message, errors }
ThrownErrors(op, status, message, errors) ==
    [op |-> op, status |-> status, message |-> message, errors |-> errors]

Returned(op, status, body) ==
    [op |-> op, status |-> status, body |-> body]

NoResponse == [op |-> "none", status |-> 0]

(***************************************************************************)
(* ItemService.calculatePrice: the quote.                                  *)
(***************************************************************************)
FindGroup(groups, id) ==
    LET k == FirstIndex([j \in DOMAIN groups |-> groups[j].id = id])
    IN IF k = 0 THEN None ELSE Some(groups[k])

RECURSIVE MutantAddonsLoopSkipsInvalid(_, _, _)
MutantAddonsLoopSkipsInvalid(groups, addons, n) ==
    IF n = 0 THEN [error |-> None, total |-> 0, details |-> <<>>]
    ELSE LET before == MutantAddonsLoopSkipsInvalid(groups, addons, n - 1)
             addonGroup == FindGroup(groups, addons[n].addon_group)
             addonPrice == calculateSelectedPrice(Val(addonGroup), addons[n].addon_ids)
         IN IF addonGroup = None THEN before
            ELSE IF ~validateSelections(Val(addonGroup), addons[n].addon_ids).valid
            THEN before
            ELSE [error |-> None,
                  total |-> before.total + addonPrice,
                  details |-> Append(before.details,
                                     [group_name |-> Val(addonGroup).id,
                                      total_price |-> addonPrice])]

\* a loop that refuses a selection naming a group the item does not carry
RECURSIVE MutantAddonsLoopRefusesUnattached(_, _, _)
MutantAddonsLoopRefusesUnattached(groups, addons, n) ==
    IF n = 0 THEN [error |-> None, total |-> 0, details |-> <<>>]
    ELSE LET before == MutantAddonsLoopRefusesUnattached(groups, addons, n - 1)
             addonGroup == FindGroup(groups, addons[n].addon_group)
             validation == validateSelections(Val(addonGroup), addons[n].addon_ids)
             addonPrice == calculateSelectedPrice(Val(addonGroup), addons[n].addon_ids)
         IN IF before.error # None THEN before
            ELSE IF addonGroup = None
            THEN [before EXCEPT !.error = Some(Message("Add-on group not found", 0, ""))]
            ELSE IF ~validation.valid
            THEN [before EXCEPT !.error = Some(validation.error)]
            ELSE [error |-> None,
                  total |-> before.total + addonPrice,
                  details |-> Append(before.details,
                                     [group_name |-> Val(addonGroup).id,
                                      total_price |-> addonPrice])]

\* The loop over the add-on selections, up to selection n: the first
\* validation error stops it; otherwise the total and the details so far.
RECURSIVE AddonsLoop(_, _, _)
AddonsLoop(groups, addons, n) ==
    IF n = 0 THEN [error |-> None, total |-> 0, details |-> <<>>]
    ELSE LET before == AddonsLoop(groups, addons, n - 1)
             selection == addons[n]
             addonGroup == FindGroup(groups, selection.addon_group)
             validation == validateSelections(Val(addonGroup), selection.addon_ids)
             addonPrice == calculateSelectedPrice(Val(addonGroup), selection.addon_ids)
         IN IF before.error # None \/ addonGroup = None THEN before
            ELSE IF ~validation.valid
            THEN [before EXCEPT !.error = Some(validation.error)]
            ELSE [error |-> None,
                  total |-> before.total + addonPrice,
                  details |-> Append(before.details,
                                     [group_name |-> Val(addonGroup).id,
                                      total_price |-> addonPrice])]

MutantItemAlwaysActive(item) == FALSE

\* if (!item.is_active)
ItemNotActive(item) == ~item.is_active

Quote(id, quantity, datetime, addons) ==
    LET found == PopulateItem(id)
        item == Val(found)
        priceResult == calculatePrice(item.pricing, quantity, datetime)
        loop == AddonsLoop(item.addon_groups, addons, Len(addons))
        subtotal == priceResult.calculated_price + loop.total
        effectiveTax == getEffectiveTax(item)
        taxCalculation == calculateTax(subtotal, effectiveTax.tax_percentage)
    IN IF found = None THEN Thrown("calculatePrice", 404, Message("Item not found", 0, ""))
       ELSE IF ItemNotActive(item)
       THEN Thrown("calculatePrice", 400, Message("Item is not available", 0, ""))
       ELSE IF priceResult = PricingError
       THEN Thrown("calculatePrice", 500, Message("Unknown pricing type", 0, ""))
       ELSE IF loop.error # None
       THEN Thrown("calculatePrice", 400, Val(loop.error))
       ELSE Returned("calculatePrice", 200,
                [item |-> id,
                 pricing_details |->
                    [pricing_type |-> priceResult.pricing_type,
                     pricing_rule_applied |-> priceResult.pricing_rule_applied,
                     unit_price |-> priceResult.unit_price,
                     quantity |-> priceResult.quantity,
                     base_price |-> priceResult.base_price,
                     discount_amount |-> priceResult.discount_amount],
                 addons_details |-> loop.details,
                 addons_total |-> loop.total,
                 subtotal |-> subtotal,
                 tax |-> [applicable |-> effectiveTax.tax_applicable,
                          percentage |-> effectiveTax.tax_percentage,
                          inherited_from |-> effectiveTax.inherited_from,
                          amount |-> taxCalculation.tax_amount],
                 final_price |-> taxCalculation.total_with_tax,
                 calculated_at |-> now])

(***************************************************************************)
(* Catalog services.  In an update's data a field is None when the request *)
(* does not carry it and Some(v) when it does; for the tri-state tax       *)
(* fields v is itself None (null) or Some(value).                          *)
(***************************************************************************)
\* Object.assign(doc, data), one field
Assigned(given, old) == IF given = None THEN old ELSE Val(given)

\* categorySchema.pre('save'): tax_percentage is cleared when tax is off
CategoryPreSave(category) ==
    IF category.tax_applicable THEN category
    ELSE [category EXCEPT !.tax_percentage = None]

\* data.tax_percentage = undefined when data.tax_applicable === false, then
\* Object.assign(category, data)
CategoryAssign(category, data) ==
    [category EXCEPT
        !.tax_applicable = Assigned(data.tax_applicable, category.tax_applicable),
        !.tax_percentage =
            IF data.tax_applicable = Some(FALSE) THEN None
            ELSE IF data.tax_percentage = None THEN category.tax_percentage
            ELSE data.tax_percentage,
        !.is_active = Assigned(data.is_active, category.is_active)]

\* CategoryService.update(id, data)
CategoryUpdate(id, data) ==
    /\ IF categories[id] = None
       THEN /\ response' = Thrown("category.update", 404, Message("Category not found", 0, id))
            /\ UNCHANGED categories
       ELSE /\ categories' = [categories EXCEPT
                                ![id] = Some(CategoryPreSave(CategoryAssign(Val(@), data)))]
            /\ response' = Returned("category.update", 200, [id |-> id])
    /\ UNCHANGED <<now, subcategories, items, addonGroups, bookings, requests>>

\* SubcategoryService.create(data); id is the new document's _id
SubcategoryCreate(id, data) ==
    /\ subcategories[id] = None
    /\ IF FindById(categories, data.category) = None
       THEN /\ response' = Thrown("subcategory.create", 404,
                                  Message("Category not found", 0, data.category))
            /\ UNCHANGED subcategories
       ELSE /\ subcategories' = [subcategories EXCEPT ![id] =
                    Some([category |-> data.category,
                          tax_applicable |-> data.tax_applicable,
                          tax_percentage |-> data.tax_percentage,
                          is_active |-> data.is_active])]
            /\ response' = Returned("subcategory.create", 201, [id |-> id])
    /\ UNCHANGED <<now, categories, items, addonGroups, bookings, requests>>

\* SubcategoryService.update(id, data)
SubcategoryUpdate(id, data) ==
    /\ IF subcategories[id] = None
       THEN /\ response' = Thrown("subcategory.update", 404,
                                  Message("Subcategory not found", 0, id))
            /\ UNCHANGED subcategories
       ELSE IF /\ data.category # None
               /\ Val(data.category) # Val(subcategories[id]).category
               /\ FindById(categories, Val(data.category)) = None
       THEN /\ response' = Thrown("subcategory.update", 404,
                                  Message("New category not found", 0, id))
            /\ UNCHANGED subcategories
       ELSE /\ subcategories' = [subcategories EXCEPT ![id] =
                    Some([category |-> Assigned(data.category, Val(@).category),
                          tax_applicable |-> Assigned(data.tax_applicable, Val(@).tax_applicable),
                          tax_percentage |-> Assigned(data.tax_percentage, Val(@).tax_percentage),
                          is_active |-> Assigned(data.is_active, Val(@).is_active)])]
            /\ response' = Returned("subcategory.update", 200, [id |-> id])
    /\ UNCHANGED <<now, categories, items, addonGroups, bookings, requests>>

\* AddonGroup.find({ _id: { $in: ids } }).length !== ids.length
AddonGroupsMissing(ids) ==
    Cardinality({g \in SeqToSet(ids) : FindById(addonGroups, g) # None}) # Len(ids)

\* a service that stores a pricing config without validating it
MutantPricingNeverInvalid(pricing) == FALSE

\* if (!pricingValidation.valid)
PricingInvalid(pricing) == ~validatePricingConfig(pricing).valid

\* ItemService.create(data); id is the new document's _id
ItemCreate(id, data) ==
    /\ items[id] = None
    /\ data.category # NoId \/ data.subcategory # NoId
    /\ LET pricingValidation == validatePricingConfig(data.pricing)
           category == IF data.category = NoId /\ data.subcategory # NoId
                       THEN Val(subcategories[data.subcategory]).category
                       ELSE data.category
       IN IF data.category # NoId /\ FindById(categories, data.category) = None
          THEN /\ response' = Thrown("item.create", 404, Message("Category not found", 0, ""))
               /\ UNCHANGED items
          ELSE IF data.subcategory # NoId /\ FindById(subcategories, data.subcategory) = None
          THEN /\ response' = Thrown("item.create", 404, Message("Subcategory not found", 0, ""))
               /\ UNCHANGED items
          ELSE IF PricingInvalid(data.pricing)
          THEN /\ response' = ThrownErrors("item.create", 400,
                                           Message("Invalid pricing configuration", 0, ""),
                                           pricingValidation.errors)
               /\ UNCHANGED items
          ELSE IF Len(data.addon_groups) > 0 /\ AddonGroupsMissing(data.addon_groups)
          THEN /\ response' = Thrown("item.create", 400,
                                     Message("One or more add-on groups not found", 0, ""))
               /\ UNCHANGED items
          ELSE /\ items' = [items EXCEPT ![id] = Some([data EXCEPT !.category = category])]
               /\ response' = Returned("item.create", 201, [id |-> id])
    /\ UNCHANGED <<now, categories, subcategories, addonGroups, bookings, requests>>

\* ItemService.update(id, data)
ItemUpdate(id, data) ==
    /\ IF items[id] = None
       THEN /\ response' = Thrown("item.update", 404, Message("Item not found", 0, ""))
            /\ UNCHANGED items
       ELSE IF data.category # None /\ FindById(categories, Val(data.category)) = None
       THEN /\ response' = Thrown("item.update", 404, Message("Category not found", 0, ""))
            /\ UNCHANGED items
       ELSE IF data.subcategory # None /\ FindById(subcategories, Val(data.subcategory)) = None
       THEN /\ response' = Thrown("item.update", 404, Message("Subcategory not found", 0, ""))
            /\ UNCHANGED items
       ELSE IF data.pricing # None /\ PricingInvalid(Val(data.pricing))
       THEN /\ response' = ThrownErrors("item.update", 400,
                                        Message("Invalid pricing configuration", 0, ""),
                                        validatePricingConfig(Val(data.pricing)).errors)
            /\ UNCHANGED items
       ELSE IF /\ data.addon_groups # None
               /\ Len(Val(data.addon_groups)) > 0
               /\ AddonGroupsMissing(Val(data.addon_groups))
       THEN /\ response' = Thrown("item.update", 400,
                                  Message("One or more add-on groups not found", 0, ""))
            /\ UNCHANGED items
       ELSE /\ items' = [items EXCEPT ![id] =
                    Some([category |-> Assigned(data.category, Val(@).category),
                          subcategory |-> Assigned(data.subcategory, Val(@).subcategory),
                          tax_applicable |-> Assigned(data.tax_applicable, Val(@).tax_applicable),
                          tax_percentage |-> Assigned(data.tax_percentage, Val(@).tax_percentage),
                          pricing |-> Assigned(data.pricing, Val(@).pricing),
                          is_bookable |-> Assigned(data.is_bookable, Val(@).is_bookable),
                          availability_slots |->
                              Assigned(data.availability_slots, Val(@).availability_slots),
                          addon_groups |-> Assigned(data.addon_groups, Val(@).addon_groups),
                          is_active |-> Assigned(data.is_active, Val(@).is_active)])]
            /\ response' = Returned("item.update", 200, [id |-> id])
    /\ UNCHANGED <<now, categories, subcategories, addonGroups, bookings, requests>>

\* ItemService.getWithTax(id)
ItemGetWithTax(id) ==
    /\ LET found == PopulateItem(id)
       IN response' =
            IF found = None
            THEN Thrown("item.getWithTax", 404, Message("Item not found", 0, ""))
            ELSE Returned("item.getWithTax", 200,
                          [id |-> id, effective_tax |-> getEffectiveTax(Val(found))])
    /\ UNCHANGED <<now, categories, subcategories, items, addonGroups, bookings, requests>>

\* SubcategoryService.getWithTax(id)
SubcategoryGetWithTax(id) ==
    /\ LET found == PopulateSubcategoryWithCategory(id)
       IN response' =
            IF found = None
            THEN Thrown("subcategory.getWithTax", 404, Message("Subcategory not found", 0, ""))
            ELSE Returned("subcategory.getWithTax", 200,
                          [id |-> id, effective_tax |-> getSubcategoryTax(Val(found))])
    /\ UNCHANGED <<now, categories, subcategories, items, addonGroups, bookings, requests>>

\* ItemService.calculatePrice(id, { quantity, datetime, addons })
CalculatePrice(id, quantity, datetime, addons) ==
    /\ response' = Quote(id, quantity, datetime, addons)
    /\ UNCHANGED <<now, categories, subcategories, items, addonGroups, bookings, requests>>

\* CategoryService.create(data); id is the new document's _id.  The name
\* in the request is new: the duplicate-name rejection is not modelled.
CategoryCreate(id, data) ==
    /\ categories[id] = None
    /\ categories' = [categories EXCEPT ![id] = Some(CategoryPreSave(data))]
    /\ response' = Returned("category.create", 201, [id |-> id])
    /\ UNCHANGED <<now, subcategories, items, addonGroups, bookings, requests>>

(***************************************************************************)
(* The catalog under tax updates: categories, one subcategory and one item *)
(* are created, moved and re-taxed, and the effective tax is read back.    *)
(***************************************************************************)
CatIds == {"c1", "c2"}
SubIds == {"s1"}
ItemIds == {"i1"}
GroupIds == {"g1"}

TaxPercentages == {5, 18}

\* what createCategorySchema accepts: a percentage is required with tax on
CategoryCreateData ==
    {[tax_applicable |-> FALSE, tax_percentage |-> None, is_active |-> TRUE]}
    \cup {[tax_applicable |-> TRUE, tax_percentage |-> Some(p), is_active |-> TRUE] :
            p \in TaxPercentages}

\* what updateCategorySchema accepts (at least one field)
CategoryUpdateData ==
    {[tax_applicable |-> a, tax_percentage |-> p, is_active |-> None] :
        a \in {None, Some(TRUE), Some(FALSE)},
        p \in {None} \cup {Some(q) : q \in TaxPercentages}}
    \ {[tax_applicable |-> None, tax_percentage |-> None, is_active |-> None]}

\* the tax fields of a subcategory or an item: null means inherit
TaxSettings ==
    {[a |-> None, p |-> None],
     [a |-> Some(FALSE), p |-> Some(5)],
     [a |-> Some(TRUE), p |-> None],
     [a |-> Some(TRUE), p |-> Some(18)]}

SubcategoryCreateData ==
    {[category |-> c, tax_applicable |-> t.a, tax_percentage |-> t.p, is_active |-> TRUE] :
        c \in CatIds, t \in TaxSettings}

SubcategoryUpdateData ==
    {[category |-> c, tax_applicable |-> None, tax_percentage |-> None, is_active |-> None] :
        c \in {Some(x) : x \in CatIds}}
    \cup {[category |-> None, tax_applicable |-> Some(t.a), tax_percentage |-> Some(t.p),
           is_active |-> None] : t \in TaxSettings}

StaticPricing(price) ==
    [type |-> "STATIC", base_price |-> Some(price), tiers |-> <<>>, discount |-> None,
     dynamic_rules |-> <<>>, default_price |-> None]

TaxItemPrice == 100 * Unit

ItemCreateDataTax ==
    {[category |-> c, subcategory |-> s, tax_applicable |-> t.a, tax_percentage |-> t.p,
      pricing |-> StaticPricing(TaxItemPrice), is_bookable |-> FALSE,
      availability_slots |-> <<>>, addon_groups |-> <<>>, is_active |-> TRUE] :
        c \in CatIds \cup {NoId}, s \in SubIds \cup {NoId}, t \in TaxSettings}

NoItemUpdate ==
    [category |-> None, subcategory |-> None, tax_applicable |-> None,
     tax_percentage |-> None, pricing |-> None, is_bookable |-> None,
     availability_slots |-> None, addon_groups |-> None, is_active |-> None]

ItemUpdateDataTax ==
    {[NoItemUpdate EXCEPT !.category = Some(c)] : c \in CatIds}
    \cup {[NoItemUpdate EXCEPT !.subcategory = Some(x)] : x \in SubIds}
    \cup {[NoItemUpdate EXCEPT !.tax_applicable = Some(t.a), !.tax_percentage = Some(t.p)] :
            t \in TaxSettings}

NoDatetime == DateTime(0, 12, 0)

InitTax ==
    /\ categories = [c \in CatIds |-> None]
    /\ subcategories = [x \in SubIds |-> None]
    /\ items = [i \in ItemIds |-> None]
    /\ addonGroups = [g \in GroupIds |-> None]
    /\ bookings = <<>>
    /\ requests = <<>>
    /\ now = 0
    /\ response = NoResponse

NextTax ==
    \/ \E id \in CatIds, data \in CategoryCreateData : CategoryCreate(id, data)
    \/ \E id \in CatIds, data \in CategoryUpdateData : CategoryUpdate(id, data)
    \/ \E id \in SubIds, data \in SubcategoryCreateData : SubcategoryCreate(id, data)
    \/ \E id \in SubIds, data \in SubcategoryUpdateData : SubcategoryUpdate(id, data)
    \/ \E id \in ItemIds, data \in ItemCreateDataTax : ItemCreate(id, data)
    \/ \E id \in ItemIds, data \in ItemUpdateDataTax : ItemUpdate(id, data)
    \/ \E id \in ItemIds : ItemGetWithTax(id)
    \/ \E id \in SubIds : SubcategoryGetWithTax(id)
    \/ \E id \in ItemIds : CalculatePrice(id, 1, NoDatetime, <<>>)

SpecTax == InitTax /\ [][NextTax]_vars

(***************************************************************************)
(* Tax resolution properties, checked under SpecTax.                       *)
(***************************************************************************)
\* The category an item's tax comes from by the hierarchy: its
\* subcategory's category, or its own category when it has no subcategory;
\* NoId when the item or its subcategory carries an explicit setting.
ItemInheritsFrom(id) ==
    LET doc == Val(items[id])
        sub == FindById(subcategories, doc.subcategory)
    IN IF doc.tax_applicable # None THEN NoId
       ELSE IF sub = None THEN doc.category
       ELSE IF Val(sub).tax_applicable # None THEN NoId
       ELSE Val(sub).category

SubcategoryInheritsFrom(id) ==
    LET doc == Val(subcategories[id])
    IN IF doc.tax_applicable # None THEN NoId ELSE doc.category

\* The resolution walking item, subcategory, the subcategory's category.
HierarchyTax(id) ==
    LET doc == Val(items[id])
        sub == PopulateSubcategoryWithCategory(doc.subcategory)
    IN IF doc.tax_applicable # None
       THEN TaxResult(Val(doc.tax_applicable), OwnPercentage(doc), "item", id)
       ELSE IF sub # None THEN getSubcategoryTax(Val(sub))
       ELSE CategoryTax(Val(PopulateCategory(doc.category)))

\* What a resolution says of the tax: the setting and the level it is from.
Setting(tax) ==
    [applicable |-> tax.tax_applicable, percentage |-> tax.tax_percentage,
     level |-> tax.inherited_from]

ItemTaxRead == response.op = "item.getWithTax" /\ response.status = 200

\* C4: the effective tax ItemService.getWithTax reports is the item's own
\* setting tagged 'item' when set, otherwise the first explicit setting walking
\* the subcategory and then that subcategory's category (the item's category
\* when it has no subcategory), and its percentage is 0 whenever it is not
\* applicable.
C4_EffectiveTaxWalksHierarchy ==
    ItemTaxRead =>
        /\ Setting(response.body.effective_tax) = Setting(HierarchyTax(response.body.id))
        /\ ~response.body.effective_tax.tax_applicable
              => response.body.effective_tax.tax_percentage = 0

\* Tax is unset on the item and on its subcategory, and every category of
\* the chain (the item's and the subcategory's) has tax off.
UnsetAtEveryLevel(id) ==
    LET doc == Val(items[id])
        sub == FindById(subcategories, doc.subcategory)
    IN /\ doc.tax_applicable = None
       /\ ~Val(categories[doc.category]).tax_applicable
       /\ sub # None =>
            /\ Val(sub).tax_applicable = None
            /\ ~Val(categories[Val(sub).category]).tax_applicable

\* C5, as stated: an item with tax unset at every level resolves to
\* applicable false, percentage 0, source 'default'.
C5_UnsetResolvesToDefault ==
    (ItemTaxRead /\ UnsetAtEveryLevel(response.body.id)) =>
        response.body.effective_tax = DefaultTax

\* C5, amended: an item with tax unset on itself and its subcategory, whose
\* categories have tax off, resolves to applicable false, percentage 0,
\* tagged 'category' with the item's category as the source.
C5_UnsetResolvesToUntaxedCategory ==
    (ItemTaxRead /\ UnsetAtEveryLevel(response.body.id)) =>
        response.body.effective_tax =
            TaxResult(FALSE, 0, "category", Val(items[response.body.id]).category)

C5_Witness ==
    /\ ItemTaxRead
    /\ UnsetAtEveryLevel(response.body.id)
    /\ Val(items[response.body.id]).subcategory # NoId

\* The resolutions and the quote the services would return in a state.
ItemTaxNow ==
    [i \in ItemIds |->
        IF items[i] = None THEN DefaultTax ELSE getEffectiveTax(Val(PopulateItem(i)))]

SubcategoryTaxNow ==
    [x \in SubIds |->
        IF subcategories[x] = None THEN DefaultTax
        ELSE getSubcategoryTax(Val(PopulateSubcategoryWithCategory(x)))]

CategoryTaxNow ==
    [c \in CatIds |->
        IF categories[c] = None THEN DefaultTax ELSE CategoryTax(Val(PopulateCategory(c)))]

QuoteNow == [i \in ItemIds |-> Quote(i, 1, NoDatetime, <<>>)]

\* C6: a category update that succeeds writes no item and no subcategory,
\* and after it every item and subcategory inheriting its tax from that
\* category resolves, and is quoted, with the category's new setting.
C6_CategoryUpdateReadThrough ==
    [][(response'.op = "category.update" /\ response'.status = 200) =>
          /\ items' = items
          /\ subcategories' = subcategories
          /\ \A i \in ItemIds :
                (items[i] # None /\ ItemInheritsFrom(i) = response'.body.id) =>
                   /\ Setting(ItemTaxNow'[i]) = Setting(CategoryTaxNow'[response'.body.id])
                   /\ QuoteNow'[i].body.tax.percentage
                         = CategoryTaxNow'[response'.body.id].tax_percentage
          /\ \A x \in SubIds :
                (subcategories[x] # None /\ SubcategoryInheritsFrom(x) = response'.body.id) =>
                   Setting(SubcategoryTaxNow'[x]) = Setting(CategoryTaxNow'[response'.body.id])
      ]_vars

(***************************************************************************)
(* The catalog under pricing changes: one item is created and re-priced    *)
(* with tiered, discounted and static configs, and quoted.                 *)
(***************************************************************************)
MaxTiers == 3
MaxTierQty == 3
MaxQuantity == 4

\* The tiers tierSchema accepts within the bound: integer 0 <= min <= max.
\* Each range carries its own price, so the price tells the tier.
TierPrice(min, max) == (1 + min * (MaxTierQty + 1) + max) * Unit

Tiers ==
    {[min_quantity |-> r[1], max_quantity |-> r[2], price |-> TierPrice(r[1], r[2])] :
        r \in {p \in (0..MaxTierQty) \X (0..MaxTierQty) : p[1] <= p[2]}}

TierLists(n) == UNION {[1..k -> Tiers] : k \in 1..n}

TieredPricing(tiers) ==
    [type |-> "TIERED", base_price |-> None, tiers |-> tiers, discount |-> None,
     dynamic_rules |-> <<>>, default_price |-> None]

DiscountedPricing(basePrice, type, value) ==
    [type |-> "DISCOUNTED", base_price |-> Some(basePrice), tiers |-> <<>>,
     discount |-> Some([type |-> type, value |-> value]),
     dynamic_rules |-> <<>>, default_price |-> None]

\* base prices and discount values: whole units, a percentage up to and over
\* 100, a flat amount up to and over the base amount
BasePrices == {0, 100 * Unit}
PercentageValues == {0, 50, 100, 150}
FlatValues == {0, 50 * Unit, 100 * Unit, 250 * Unit}

DiscountedConfigs ==
    {DiscountedPricing(b, "PERCENTAGE", v) : b \in BasePrices, v \in PercentageValues}
    \cup {DiscountedPricing(b, "FLAT", v) : b \in BasePrices, v \in FlatValues}

PricingConfigs ==
    {TieredPricing(t) : t \in TierLists(MaxTiers)}
    \cup DiscountedConfigs
    \cup {StaticPricing(b) : b \in BasePrices}

\* the configs an update switches the item to
UpdatePricingConfigs ==
    {TieredPricing(t) : t \in TierLists(MaxTiers - 1)}
    \cup DiscountedConfigs
    \cup {StaticPricing(b) : b \in BasePrices}

PlainCategory == [tax_applicable |-> FALSE, tax_percentage |-> None, is_active |-> TRUE]

ItemCreateDataPricing ==
    {[category |-> c, subcategory |-> NoId, tax_applicable |-> None,
      tax_percentage |-> None, pricing |-> p, is_bookable |-> FALSE,
      availability_slots |-> <<>>, addon_groups |-> <<>>, is_active |-> TRUE] :
        c \in {"c1"}, p \in PricingConfigs}

ItemUpdateDataPricing ==
    {[NoItemUpdate EXCEPT !.pricing = Some(p)] : p \in UpdatePricingConfigs}

InitPricing == InitTax

NextPricing ==
    \/ CategoryCreate("c1", PlainCategory)
    \/ \E id \in ItemIds, data \in ItemCreateDataPricing : ItemCreate(id, data)
    \/ \E id \in ItemIds, data \in ItemUpdateDataPricing : ItemUpdate(id, data)
    \/ \E id \in ItemIds, quantity \in 1..MaxQuantity :
          CalculatePrice(id, quantity, NoDatetime, <<>>)

SpecPricing == InitPricing /\ [][NextPricing]_vars

(***************************************************************************)
(* Pricing properties, checked under SpecPricing on the quotes returned    *)
(* for the stored config.                                                  *)
(***************************************************************************)
QuoteRead == response.op = "calculatePrice" /\ response.status = 200

QuotedPricing == Val(items[response.body.item]).pricing

QuotedTiers == SeqToSet(QuotedPricing.tiers)

TieredQuote == QuoteRead /\ QuotedPricing.type = "TIERED"

DiscountedQuote == QuoteRead /\ QuotedPricing.type = "DISCOUNTED"

\* the tiers with the quantity at one of their two boundaries
BoundaryTiers(quantity) ==
    {t \in QuotedTiers : quantity = t.min_quantity \/ quantity = t.max_quantity}

\* C7: a tiered quote whose quantity is the min_quantity or the max_quantity
\* of a tier is priced with that tier: the rule names the tier, the unit
\* price is the tier's price and the amount is price x quantity.
C7_BoundaryQuantitySelectsItsTier ==
    TieredQuote =>
        \A t \in BoundaryTiers(response.body.pricing_details.quantity) :
            LET d == response.body.pricing_details
            IN /\ d.pricing_rule_applied = RuleLabel("Tier", t.min_quantity, t.max_quantity)
               /\ d.unit_price = t.price
               /\ d.base_price = t.price * d.quantity
               /\ response.body.subtotal = t.price * d.quantity

\* the quantity is the upper boundary of one tier and the next tier starts
\* right after it
C7_Witness ==
    /\ TieredQuote
    /\ \E t \in QuotedTiers, u \in QuotedTiers :
          /\ response.body.pricing_details.quantity = t.max_quantity
          /\ t.min_quantity < t.max_quantity
          /\ u.min_quantity = t.max_quantity + 1

NoTierContains(quantity) == \A t \in QuotedTiers : ~TierContains(t, quantity)

\* the tier whose range lies highest
HighestTier(tiers) ==
    CHOOSE t \in tiers : \A u \in tiers : u.max_quantity <= t.max_quantity

\* C8: a tiered quote whose quantity no tier contains is priced with the
\* tier of the highest range and labelled Default/Overflow; with no tiers at
\* all, calculateTieredPrice prices with default_price under the same label.
C8_UnmatchedQuantityFallsBackToHighestTier ==
    /\ (TieredQuote /\ NoTierContains(response.body.pricing_details.quantity)) =>
          LET d == response.body.pricing_details
              t == HighestTier(QuotedTiers)
          IN /\ d.pricing_rule_applied = RuleLabel("Default/Overflow", 0, 0)
             /\ d.unit_price = t.price
             /\ d.base_price = t.price * d.quantity
    /\ \A defaultPrice \in BasePrices, quantity \in 1..MaxQuantity :
          LET r == calculateTieredPrice(
                      [TieredPricing(<<>>) EXCEPT !.default_price = Some(defaultPrice)],
                      quantity)
          IN /\ r.pricing_rule_applied = RuleLabel("Default/Overflow", 0, 0)
             /\ r.unit_price = defaultPrice
             /\ r.calculated_price = defaultPrice * quantity

\* the quantity lies in a gap: a tier ends below it and a tier, declared
\* before that one, starts above it
C8_Witness ==
    /\ TieredQuote
    /\ NoTierContains(response.body.pricing_details.quantity)
    /\ \E j \in DOMAIN QuotedPricing.tiers, k \in DOMAIN QuotedPricing.tiers :
          /\ j < k
          /\ QuotedPricing.tiers[j].min_quantity > response.body.pricing_details.quantity
          /\ QuotedPricing.tiers[k].max_quantity < response.body.pricing_details.quantity

\* the positions of the tiers of a config that contain the quantity
TiersContaining(pricing, quantity) ==
    {k \in DOMAIN pricing.tiers : TierContains(pricing.tiers[k], quantity)}

\* C9: no TIERED config with two tiers sharing a quantity passes
\* validatePricingConfig into the item store, however many tiers it has and
\* in whatever order: in a stored config at most one tier contains any
\* quantity.
C9_AcceptedTiersAreDisjoint ==
    \A i \in ItemIds :
        (items[i] # None /\ Val(items[i]).pricing.type = "TIERED") =>
            \A quantity \in 0..MaxTierQty :
                Cardinality(TiersContaining(Val(items[i]).pricing, quantity)) <= 1

\* validatePricingConfig reported an overlap and the write was refused
C9_Witness ==
    /\ response.op \in {"item.create", "item.update"}
    /\ response.status = 400
    /\ \E e \in response.errors : e.text = "Tier overlap detected between tiers"

\* C10: in a discounted quote the discount amount is at least 0 and at most
\* the base amount base_price x quantity, and the price after the discount
\* is at least 0.
C10_DiscountWithinBaseAmount ==
    DiscountedQuote =>
        LET d == response.body.pricing_details
        IN /\ d.base_price = Val(QuotedPricing.base_price) * d.quantity
           /\ d.discount_amount >= 0
           /\ d.discount_amount <= d.base_price
           /\ response.body.subtotal = d.base_price - d.discount_amount
           /\ response.body.subtotal >= 0

\* a flat discount larger than the base amount was quoted
C10_Witness ==
    /\ DiscountedQuote
    /\ Val(QuotedPricing.discount).type = "FLAT"
    /\ Val(QuotedPricing.discount).value > response.body.pricing_details.base_price
    /\ response.body.pricing_details.base_price > 0

(***************************************************************************)
(* Bookings.  The collection is the sequence of the documents saved, a     *)
(* booking's _id its position.  A booking is                               *)
(*   [item, booking_date, start_time, end_time, quantity, selected_addons, *)
(*    price_breakdown, status];                                            *)
(* booking_date is a day number and start_time, end_time are time strings. *)
(***************************************************************************)
BOOKING_STATUS == {"PENDING", "CONFIRMED", "CANCELLED", "COMPLETED"}

NoBooking == 0

\* The $or of the conflict query: $lt, $lte, $gt, $gte on the stored strings.
ConflictClause(booking, startTime, endTime) ==
    \/ StrLte(booking.start_time, startTime) /\ StrGt(booking.end_time, startTime)
    \/ StrLt(booking.start_time, endTime) /\ StrGte(booking.end_time, endTime)
    \/ StrGte(booking.start_time, startTime) /\ StrLte(booking.end_time, endTime)

\* Booking.findConflicts(itemId, bookingDate, startTime, endTime, excludeBookingId):
\* the ids of the documents the query finds.
findConflicts(itemId, bookingDate, startTime, endTime, excludeBookingId) ==
    {k \in DOMAIN bookings :
        /\ bookings[k].item = itemId
        /\ bookings[k].booking_date = bookingDate
        /\ bookings[k].status # "CANCELLED"
        /\ ConflictClause(bookings[k], startTime, endTime)
        /\ excludeBookingId # NoBooking => k # excludeBookingId}

\* Booking.isTimeOverlapping(start1, end1, start2, end2)
isTimeOverlapping(start1, end1, start2, end2) ==
    toMinutes(start1) < toMinutes(end2) /\ toMinutes(end1) > toMinutes(start2)

\* new Date(bookingDate).getDay(): day numbers count from a Sunday
GetDay(bookingDate) == bookingDate % 7

MutantStartWithinSlot(startTime, endTime, slotStart, slotEnd) ==
    /\ toMinutes(startTime) >= toMinutes(slotStart)
    /\ toMinutes(startTime) < toMinutes(slotEnd)

\* BookingService.isTimeWithinSlot
isTimeWithinSlot(startTime, endTime, slotStart, slotEnd) ==
    /\ toMinutes(startTime) >= toMinutes(slotStart)
    /\ toMinutes(endTime) <= toMinutes(slotEnd)

AvailabilityResult(available, reason) == [available |-> available, reason |-> reason]

\* BookingService.checkAvailability(item, bookingDate, startTime, endTime)
checkAvailability(item, bookingDate, startTime, endTime) ==
    IF Len(item.availability_slots) = 0 THEN AvailabilityResult(TRUE, "")
    ELSE IF \E k \in DOMAIN item.availability_slots :
                /\ item.availability_slots[k].day = GetDay(bookingDate)
                /\ isTimeWithinSlot(startTime, endTime,
                                    item.availability_slots[k].start_time,
                                    item.availability_slots[k].end_time)
    THEN AvailabilityResult(TRUE, "")
    ELSE AvailabilityResult(FALSE, "Requested time slot is not within available hours")

\* throw { status: 409, message, conflicts }
ThrownConflicts(op, message, conflicts) ==
    [op |-> op, status |-> 409, message |-> Message(message, 0, ""),
     conflicts |-> {[id |-> k, start_time |-> bookings[k].start_time,
                     end_time |-> bookings[k].end_time] : k \in conflicts}]

\* The steps of create before the conflict query: None when they pass.
CreateRejection(data) ==
    LET found == FindById(items, data.item)
        item == Val(found)
        isAvailable == checkAvailability(item, data.booking_date,
                                         data.start_time, data.end_time)
    IN IF found = None
       THEN Some(Thrown("booking.create", 404, Message("Item not found", 0, "")))
       ELSE IF ~item.is_bookable
       THEN Some(Thrown("booking.create", 400,
                        Message("This item is not available for booking", 0, "")))
       ELSE IF ~item.is_active
       THEN Some(Thrown("booking.create", 400, Message("This item is not available", 0, "")))
       ELSE IF ~isAvailable.available
       THEN Some(Thrown("booking.create", 400, Message(isAvailable.reason, 0, "")))
       ELSE None

\* the price_breakdown a booking stores of a quote
PriceBreakdown(quote) ==
    [base_price |-> quote.pricing_details.base_price,
     pricing_type |-> quote.pricing_details.pricing_type,
     pricing_rule_applied |-> quote.pricing_details.pricing_rule_applied,
     discount_amount |-> quote.pricing_details.discount_amount,
     addons_total |-> quote.addons_total,
     subtotal |-> quote.subtotal,
     tax_percentage |-> quote.tax.percentage,
     tax_amount |-> quote.tax.amount,
     final_price |-> quote.final_price]

\* selectedAddonsWithPrices: each selection with the total of the first
\* detail of its group, 0 when the group is not attached to the item
SelectedAddonsWithPrices(itemId, selected, details) ==
    [k \in DOMAIN selected |->
        LET attached == \E j \in DOMAIN PopulateAddonGroups(Val(items[itemId]).addon_groups) :
                            PopulateAddonGroups(Val(items[itemId]).addon_groups)[j].id
                                = selected[k].addon_group
            d == FirstIndex([j \in DOMAIN details |->
                                details[j].group_name = selected[k].addon_group])
        IN [addon_group |-> selected[k].addon_group,
            addon_ids |-> selected[k].addon_ids,
            price |-> IF attached /\ d # 0 THEN details[d].total_price ELSE 0]]

\* new Booking({ ...data, selected_addons, price_breakdown, status: CONFIRMED })
NewBooking(data, quote) ==
    [item |-> data.item,
     booking_date |-> data.booking_date,
     start_time |-> data.start_time,
     end_time |-> data.end_time,
     quantity |-> data.quantity,
     selected_addons |->
        SelectedAddonsWithPrices(data.item, data.selected_addons, quote.addons_details),
     price_breakdown |-> PriceBreakdown(quote),
     status |-> "CONFIRMED"]

\* The save of create, given what ItemService.calculatePrice returned or
\* threw: the response is the quote's error, or the booking stored.
CreateSave(data, quote) ==
    IF quote.status # 200
    THEN /\ response' = [quote EXCEPT !.op = "booking.create"]
         /\ UNCHANGED bookings
    ELSE /\ bookings' = Append(bookings, NewBooking(data, quote.body))
         /\ response' = Returned("booking.create", 201, [id |-> Len(bookings) + 1])

\* The steps of create after the conflict query: the quote, then the save.
CreateWrite(data, datetime) ==
    CreateSave(data, Quote(data.item, data.quantity, datetime, data.selected_addons))

\* BookingService.create(data), run without interruption.  datetime is the
\* Date the quote is asked for.
BookingCreate(data, datetime) ==
    /\ LET rejection == CreateRejection(data)
           conflicts == findConflicts(data.item, data.booking_date,
                                      data.start_time, data.end_time, NoBooking)
       IN IF rejection # None
          THEN response' = Val(rejection) /\ UNCHANGED bookings
          ELSE IF conflicts # {}
          THEN /\ response' = ThrownConflicts("booking.create",
                                  "Time slot conflicts with existing bookings", conflicts)
               /\ UNCHANGED bookings
          ELSE CreateWrite(data, datetime)
    /\ UNCHANGED <<now, categories, subcategories, items, addonGroups, requests>>

\* An update's data: each field None when the request leaves it out.
NoBookingUpdate ==
    [booking_date |-> None, start_time |-> None, end_time |-> None,
     quantity |-> None, selected_addons |-> None, status |-> None]

\* addonsForPricing of update
UpdateAddonsForPricing(booking, data) ==
    [k \in DOMAIN Assigned(data.selected_addons, booking.selected_addons) |->
        [addon_group |-> Assigned(data.selected_addons, booking.selected_addons)[k].addon_group,
         addon_ids |-> Assigned(data.selected_addons, booking.selected_addons)[k].addon_ids]]

\* Object.assign(booking, data), with the price_breakdown a re-quote gave
UpdatedBooking(booking, data, breakdown) ==
    [item |-> booking.item,
     booking_date |-> Assigned(data.booking_date, booking.booking_date),
     start_time |-> Assigned(data.start_time, booking.start_time),
     end_time |-> Assigned(data.end_time, booking.end_time),
     quantity |-> Assigned(data.quantity, booking.quantity),
     selected_addons |-> Assigned(data.selected_addons, booking.selected_addons),
     price_breakdown |-> breakdown,
     status |-> Assigned(data.status, booking.status)]

\* an update that refuses cancelled bookings only
MutantUpdateRefusedCancelledOnly(booking) == booking.status = "CANCELLED"

\* [CANCELLED, COMPLETED].includes(booking.status)
UpdateRefused(booking) == booking.status \in {"CANCELLED", "COMPLETED"}

\* update once the booking is found; quote is what the re-quote returned or
\* threw (asked for only when quantity or selected_addons is given)
UpdateFound(id, booking, data, conflicts, quote) ==
    IF UpdateRefused(booking)
    THEN /\ response' = Thrown("booking.update", 400,
                               Message("Cannot update booking", 0, booking.status))
         /\ UNCHANGED bookings
    ELSE IF /\ (data.start_time # None \/ data.end_time # None \/ data.booking_date # None)
            /\ conflicts # {}
    THEN /\ response' = ThrownConflicts("booking.update",
                            "New time slot conflicts with existing bookings", conflicts)
         /\ UNCHANGED bookings
    ELSE IF (data.quantity # None \/ data.selected_addons # None) /\ quote.status # 200
    THEN /\ response' = [quote EXCEPT !.op = "booking.update"]
         /\ UNCHANGED bookings
    \* a selection handed to the document has no price, which
    \* selectedAddonSchema requires
    ELSE IF data.selected_addons # None /\ Len(Val(data.selected_addons)) > 0
    THEN /\ response' = Thrown("booking.update", 500,
                               Message("Booking validation failed", 0, ""))
         /\ UNCHANGED bookings
    ELSE /\ bookings' = [bookings EXCEPT ![id] =
                UpdatedBooking(booking, data,
                    IF data.quantity # None \/ data.selected_addons # None
                    THEN PriceBreakdown(quote.body)
                    ELSE booking.price_breakdown)]
         /\ response' = Returned("booking.update", 200, [id |-> id])

\* BookingService.update(id, data).  datetime is the Date a re-quote is
\* asked for.
BookingUpdate(id, data, datetime) ==
    /\ IF id \notin DOMAIN bookings
       THEN /\ response' = Thrown("booking.update", 404, Message("Booking not found", 0, ""))
            /\ UNCHANGED bookings
       ELSE UpdateFound(id, bookings[id], data,
                findConflicts(bookings[id].item,
                              Assigned(data.booking_date, bookings[id].booking_date),
                              Assigned(data.start_time, bookings[id].start_time),
                              Assigned(data.end_time, bookings[id].end_time),
                              id),
                Quote(bookings[id].item, Assigned(data.quantity, bookings[id].quantity),
                      datetime, UpdateAddonsForPricing(bookings[id], data)))
    /\ UNCHANGED <<now, categories, subcategories, items, addonGroups, requests>>

\* BookingService.cancel(id)
BookingCancel(id) ==
    /\ IF id \notin DOMAIN bookings
       THEN /\ response' = Thrown("booking.cancel", 404, Message("Booking not found", 0, ""))
            /\ UNCHANGED bookings
       ELSE IF bookings[id].status = "CANCELLED"
       THEN /\ response' = Thrown("booking.cancel", 400,
                                  Message("Booking is already cancelled", 0, ""))
            /\ UNCHANGED bookings
       ELSE IF bookings[id].status = "COMPLETED"
       THEN /\ response' = Thrown("booking.cancel", 400,
                                  Message("Cannot cancel a completed booking", 0, ""))
            /\ UNCHANGED bookings
       ELSE /\ bookings' = [bookings EXCEPT ![id].status = "CANCELLED"]
            /\ response' = Returned("booking.cancel", 200, [id |-> id])
    /\ UNCHANGED <<now, categories, subcategories, items, addonGroups, requests>>

\* BookingService.complete(id)
BookingComplete(id) ==
    /\ IF id \notin DOMAIN bookings
       THEN /\ response' = Thrown("booking.complete", 404, Message("Booking not found", 0, ""))
            /\ UNCHANGED bookings
       ELSE IF bookings[id].status = "CANCELLED"
       THEN /\ response' = Thrown("booking.complete", 400,
                                  Message("Cannot complete a cancelled booking", 0, ""))
            /\ UNCHANGED bookings
       ELSE /\ bookings' = [bookings EXCEPT ![id].status = "COMPLETED"]
            /\ response' = Returned("booking.complete", 200, [id |-> id])
    /\ UNCHANGED <<now, categories, subcategories, items, addonGroups, requests>>

(***************************************************************************)
(* Bookings made one request at a time: a bookable item is created, and    *)
(* bookings of it are created, moved, cancelled and completed.             *)
(***************************************************************************)
MaxBookings == 2

\* times the request pattern accepts: "09:00", "9:00", "10:00", "10:30", "11:00"
BookingTimes ==
    {T(0, 9, 0, 0), T1(9, 0, 0), T(1, 0, 0, 0), T(1, 0, 3, 0), T(1, 1, 0, 0)}

\* two days: day numbers 1 and 2, a Monday and a Tuesday
BookingDates == {1, 2}

BookableItemIds == {"i1", "i2"}

Slot(day, startTime, endTime, maxBookings) ==
    [day |-> day, start_time |-> startTime, end_time |-> endTime,
     max_bookings |-> maxBookings]

BookingItemPrice == 100 * Unit

BookableItem(slots) ==
    [category |-> "c1", subcategory |-> NoId, tax_applicable |-> None,
     tax_percentage |-> None, pricing |-> StaticPricing(BookingItemPrice),
     is_bookable |-> TRUE, availability_slots |-> slots, addon_groups |-> <<>>,
     is_active |-> TRUE]

\* i1 is created open at any time or open on Mondays 09:00-11:00, i2 open
\* at any time
ItemCreateDataBooking(id) ==
    IF id = "i1"
    THEN {BookableItem(<<>>), BookableItem(<<Slot(1, T(0, 9, 0, 0), T(1, 1, 0, 0), 1)>>)}
    ELSE {BookableItem(<<>>)}

\* the intervals requested: "9:00"-"11:00", "10:00"-"10:30", "09:00"-"10:00",
\* "10:00"-"11:00", and "10:30"-"10:00", whose end is before its start
BookingIntervals ==
    {<<T1(9, 0, 0), T(1, 1, 0, 0)>>, <<T(1, 0, 0, 0), T(1, 0, 3, 0)>>,
     <<T(0, 9, 0, 0), T(1, 0, 0, 0)>>, <<T(1, 0, 0, 0), T(1, 1, 0, 0)>>,
     <<T(1, 0, 3, 0), T(1, 0, 0, 0)>>}

BookingRequest(item, date, startTime, endTime) ==
    [item |-> item, booking_date |-> date, start_time |-> startTime,
     end_time |-> endTime, quantity |-> 1, selected_addons |-> <<>>]

\* every interval on both days of i1, and one booking of i2
BookingCreateData ==
    {BookingRequest("i1", d, t[1], t[2]) : d \in BookingDates, t \in BookingIntervals}
    \cup {BookingRequest("i2", 1, T(1, 0, 0, 0), T(1, 0, 3, 0))}

BookingUpdateData ==
    {[NoBookingUpdate EXCEPT !.start_time = Some(t[1]), !.end_time = Some(t[2])] :
        t \in BookingIntervals}
    \cup {[NoBookingUpdate EXCEPT !.booking_date = Some(d)] : d \in BookingDates}
    \cup {[NoBookingUpdate EXCEPT !.status = Some("CANCELLED")]}

\* new Date(booking_date + 'T' + start_time): the date and time of the
\* booking when the string parses, an Invalid Date when it does not
BookingDatetimes(bookingDate, startTime) ==
    {InvalidDate,
     DateTime(GetDay(bookingDate), toMinutes(startTime) \div 60, toMinutes(startTime) % 60)}

\* the Dates a re-quote of booking id may be asked for
UpdateDatetimes(id, data) ==
    IF id \in DOMAIN bookings
    THEN BookingDatetimes(Assigned(data.booking_date, bookings[id].booking_date),
                          Assigned(data.start_time, bookings[id].start_time))
    ELSE {InvalidDate}

InitBooking ==
    /\ categories = [c \in CatIds |-> None]
    /\ subcategories = [x \in SubIds |-> None]
    /\ items = [i \in BookableItemIds |-> None]
    /\ addonGroups = [g \in GroupIds |-> None]
    /\ bookings = <<>>
    /\ requests = <<>>
    /\ now = 0
    /\ response = NoResponse

NextBooking ==
    \/ CategoryCreate("c1", PlainCategory)
    \/ \E id \in BookableItemIds : \E data \in ItemCreateDataBooking(id) : ItemCreate(id, data)
    \/ \E data \in BookingCreateData :
          \E datetime \in BookingDatetimes(data.booking_date, data.start_time) :
             Len(bookings) < MaxBookings /\ BookingCreate(data, datetime)
    \/ \E id \in 1..MaxBookings, data \in BookingUpdateData :
          \E datetime \in UpdateDatetimes(id, data) :
             BookingUpdate(id, data, datetime)
    \/ \E id \in 1..MaxBookings : BookingCancel(id)
    \/ \E id \in 1..MaxBookings : BookingComplete(id)

SpecBooking == InitBooking /\ [][NextBooking]_vars

(***************************************************************************)
(* Booking properties, checked under SpecBooking.                          *)
(***************************************************************************)
Max2(a, b) == IF a >= b THEN a ELSE b

\* [start,end) of two bookings share a minute
IntervalsOverlap(a, b) ==
    Max2(toMinutes(a.start_time), toMinutes(b.start_time))
        < Min2(toMinutes(a.end_time), toMinutes(b.end_time))

\* C2: no two non-cancelled bookings of the same item on the same date
\* have overlapping [start,end) intervals.
C2_ActiveBookingsNeverOverlap ==
    \A j \in DOMAIN bookings, k \in DOMAIN bookings :
        (/\ j < k
         /\ bookings[j].item = bookings[k].item
         /\ bookings[j].booking_date = bookings[k].booking_date
         /\ bookings[j].status # "CANCELLED"
         /\ bookings[k].status # "CANCELLED")
        => ~IntervalsOverlap(bookings[j], bookings[k])

\* the bookings [s2,e2) with start < e2 and end > s2, by the time of day
OverlappingBookings(itemId, bookingDate, startTime, endTime, excludeBookingId) ==
    {k \in DOMAIN bookings :
        /\ bookings[k].item = itemId
        /\ bookings[k].booking_date = bookingDate
        /\ bookings[k].status # "CANCELLED"
        /\ k # excludeBookingId
        /\ isTimeOverlapping(startTime, endTime,
                             bookings[k].start_time, bookings[k].end_time)}

\* C3: for every item, date and pair of accepted times, findConflicts
\* returns exactly the non-cancelled bookings of the item and date, other
\* than the excluded one, with start < e2 and end > s2.
C3_FindConflictsIsTheOverlapTest ==
    \A itemId \in BookableItemIds, bookingDate \in BookingDates,
       startTime \in BookingTimes, endTime \in BookingTimes,
       excludeBookingId \in 0..MaxBookings :
        findConflicts(itemId, bookingDate, startTime, endTime, excludeBookingId)
            = OverlappingBookings(itemId, bookingDate, startTime, endTime,
                                  excludeBookingId)

(***************************************************************************)
(* Bookings created by concurrent requests.  Each await of create yields   *)
(* to the other requests: a request first runs up to the conflict query    *)
(* (CreateCheck), and later quotes and saves (CreateFinish).  requests     *)
(* maps a client to its request in flight: where it is, its data, and the  *)
(* response it got.                                                        *)
(***************************************************************************)
Clients == {"a", "b"}

NoRequest == [pc |-> "idle", data |-> None, result |-> None]

\* padded times with the start before the end: "09:00"-"10:00",
\* "10:00"-"10:30" and "10:00"-"11:00" of i1 on either day
RaceCreateData ==
    {BookingRequest("i1", d, t[1], t[2]) :
        d \in BookingDates,
        t \in {<<T(0, 9, 0, 0), T(1, 0, 0, 0)>>, <<T(1, 0, 0, 0), T(1, 0, 3, 0)>>,
               <<T(1, 0, 0, 0), T(1, 1, 0, 0)>>}}

\* create up to and including the conflict query and the test of its result
CreateCheck(client, data) ==
    /\ requests[client].pc = "idle"
    /\ LET rejection == CreateRejection(data)
           conflicts == findConflicts(data.item, data.booking_date,
                                      data.start_time, data.end_time, NoBooking)
       IN IF rejection # None
          THEN /\ response' = Val(rejection)
               /\ requests' = [requests EXCEPT ![client] =
                     [pc |-> "done", data |-> Some(data), result |-> Some(Val(rejection))]]
          ELSE IF conflicts # {}
          THEN /\ response' = ThrownConflicts("booking.create",
                                  "Time slot conflicts with existing bookings", conflicts)
               /\ requests' = [requests EXCEPT ![client] =
                     [pc |-> "done", data |-> Some(data), result |-> Some(response')]]
          ELSE /\ response' = response
               /\ requests' = [requests EXCEPT ![client] =
                     [pc |-> "checked", data |-> Some(data), result |-> None]]
    /\ UNCHANGED <<now, categories, subcategories, items, addonGroups, bookings>>

\* the rest of create: the quote and the save
CreateFinish(client, datetime) ==
    /\ requests[client].pc = "checked"
    /\ CreateWrite(Val(requests[client].data), datetime)
    /\ requests' = [requests EXCEPT ![client] =
          [pc |-> "done", data |-> @.data, result |-> Some(response')]]
    /\ UNCHANGED <<now, categories, subcategories, items, addonGroups>>

InitRace ==
    /\ categories = [c \in CatIds |-> None]
    /\ subcategories = [x \in SubIds |-> None]
    /\ items = [i \in BookableItemIds |-> None]
    /\ addonGroups = [g \in GroupIds |-> None]
    /\ bookings = <<>>
    /\ requests = [c \in Clients |-> NoRequest]
    /\ now = 0
    /\ response = NoResponse

NextRace ==
    \/ CategoryCreate("c1", PlainCategory)
    \/ \E id \in BookableItemIds : \E data \in ItemCreateDataBooking(id) : ItemCreate(id, data)
    \/ \E client \in Clients, data \in RaceCreateData : CreateCheck(client, data)
    \/ \E client \in Clients :
          \E datetime \in {InvalidDate, DateTime(1, 10, 0)} : CreateFinish(client, datetime)

SpecRace == InitRace /\ [][NextRace]_vars

Stored(client) ==
    /\ requests[client].pc = "done"
    /\ Val(requests[client].result).status = 201

\* C1: of two concurrent create requests for the same item and date whose
\* intervals overlap, at most one succeeds: they are never both stored.
C1_OverlappingConcurrentCreatesNotBothStored ==
    \A c \in Clients, d \in Clients :
        (/\ c # d
         /\ Stored(c)
         /\ Stored(d)
         /\ Val(requests[c].data).item = Val(requests[d].data).item
         /\ Val(requests[c].data).booking_date = Val(requests[d].data).booking_date)
        => ~IntervalsOverlap(Val(requests[c].data), Val(requests[d].data))


(***************************************************************************)
(* ItemController.calculatePrice, GET /items/:id/price: the exchange keeps *)
(* the request next to what the service returned or threw.                 *)
(***************************************************************************)
PriceQuery(id, quantity, datetime, addons) ==
    [id |-> id, quantity |-> quantity, datetime |-> datetime, addons |-> addons]

PriceExchange(request, result) ==
    [op |-> "GET /items/:id/price", status |-> result.status,
     request |-> request, result |-> result]

GetPrice(id, quantity, datetime, addons) ==
    /\ response' = PriceExchange(PriceQuery(id, quantity, datetime, addons),
                                 Quote(id, quantity, datetime, addons))
    /\ UNCHANGED <<now, categories, subcategories, items, addonGroups, bookings, requests>>

\* Time passes between two calls.
MaxNow == 2

Tick ==
    /\ now < MaxNow
    /\ now' = now + 1
    /\ UNCHANGED <<categories, subcategories, items, addonGroups, bookings, requests, response>>

(***************************************************************************)
(* Dynamic pricing: an item with up to MaxRules rules is quoted at several *)
(* days and times.  Rule k of a config is named "r<k>" and priced k.       *)
(***************************************************************************)
MaxRules == 3

RuleNames == <<"r1", "r2", "r3", "r4">>

Windows ==
    {[start_time |-> T(2, 2, 0, 0), end_time |-> T(0, 2, 0, 0)],
     [start_time |-> T1(9, 0, 0), end_time |-> T(1, 2, 3, 0)],
     [start_time |-> T(1, 2, 0, 0), end_time |-> T(1, 2, 0, 0)]}

RuleDays == {{}, {1}}
RulePriorities == {0, 1}

RuleOptions ==
    {[days |-> d, start_time |-> w.start_time, end_time |-> w.end_time, priority |-> p] :
        d \in RuleDays, w \in Windows, p \in RulePriorities}

DynamicRule(k, o) ==
    [name |-> RuleNames[k], days |-> o.days, start_time |-> o.start_time,
     end_time |-> o.end_time, price |-> k * Unit, priority |-> o.priority]

RuleLists ==
    UNION {{[k \in 1..n |-> DynamicRule(k, os[k])] : os \in [1..n -> RuleOptions]} :
              n \in 1..MaxRules}

DefaultPrice == 9 * Unit

DynamicPricing(rules) ==
    [type |-> "DYNAMIC", base_price |-> None, tiers |-> <<>>, discount |-> None,
     dynamic_rules |-> rules, default_price |-> Some(DefaultPrice)]

ItemCreateDataDynamic ==
    {[category |-> "c1", subcategory |-> NoId, tax_applicable |-> None,
      tax_percentage |-> None, pricing |-> p, is_bookable |-> FALSE,
      availability_slots |-> <<>>, addon_groups |-> <<>>, is_active |-> TRUE] :
        p \in {DynamicPricing(r) : r \in RuleLists}
              \cup {[DynamicPricing(<<>>) EXCEPT !.default_price = d] :
                        d \in {None, Some(DefaultPrice)}}}

DynamicTimes == {<<23, 30>>, <<1, 0>>, <<12, 0>>, <<9, 0>>, <<22, 0>>, <<2, 0>>, <<12, 29>>}

DynamicDatetimes ==
    {DateTime(1, t[1], t[2]) : t \in DynamicTimes}
    \cup {DateTime(2, 23, 30), DateTime(2, 12, 0)}

DynamicQuantity == 2

InitDynamic == InitTax

NextDynamic ==
    \/ CategoryCreate("c1", PlainCategory)
    \/ \E data \in ItemCreateDataDynamic : ItemCreate("i1", data)
    \/ \E datetime \in DynamicDatetimes : GetPrice("i1", DynamicQuantity, datetime, <<>>)

SpecDynamic == InitDynamic /\ [][NextDynamic]_vars

\* A dynamic quote was answered: the request and the rules it was priced with.
DynamicQuoted ==
    /\ response.op = "GET /items/:id/price"
    /\ response.status = 200
    /\ response.result.body.pricing_details.pricing_type = "DYNAMIC"

QuotedRules == Val(items[response.request.id]).pricing.dynamic_rules
QuotedAt == response.request.datetime
AppliedRuleName == response.result.body.pricing_details.pricing_rule_applied.text
AppliedUnitPrice == response.result.body.pricing_details.unit_price

\* The declared rules (by position) that match the quote's day and time.
MatchingRules == {k \in DOMAIN QuotedRules : RuleMatches(QuotedRules[k], QuotedAt)}

\* The matching rule of highest priority, the first declared among equals.
WinningRule ==
    CHOOSE k \in MatchingRules :
        \A j \in MatchingRules :
            \/ QuotedRules[j].priority < QuotedRules[k].priority
            \/ QuotedRules[j].priority = QuotedRules[k].priority /\ k <= j

\* C11: among the rules matching the day and time the one of highest priority
\* is applied, the first declared among those of equal priority; when no rule
\* matches the unit price is default_price.
C11_HighestPriorityFirstDeclaredWins ==
    DynamicQuoted =>
        IF MatchingRules = {}
        THEN /\ AppliedUnitPrice = DefaultPrice
             /\ AppliedRuleName = "Default Price"
        ELSE /\ AppliedRuleName = QuotedRules[WinningRule].name
             /\ AppliedUnitPrice = QuotedRules[WinningRule].price

\* Two matching rules of equal priority below a later one of higher priority,
\* and the later one applied.
C11_Witness ==
    /\ DynamicQuoted
    /\ Cardinality(MatchingRules) = 3
    /\ QuotedRules[1].priority = 0 /\ QuotedRules[2].priority = 1
    /\ QuotedRules[3].priority = 1
    /\ AppliedRuleName = "r2"

\* Minute c of the day lies in the window [s, e), which wraps past midnight
\* when e < s.
InWindow(c, s, e) == IF e < s THEN c >= s \/ c < e ELSE s <= c /\ c < e

\* The rule's day set is empty or holds the day, and the minute of the day
\* lies in the rule's window.
RuleCovers(rule, datetime) ==
    /\ rule.days = {} \/ datetime.day \in rule.days
    /\ InWindow(datetime.hours * 60 + datetime.minutes,
                toMinutes(rule.start_time), toMinutes(rule.end_time))

AppliedRules == {k \in DOMAIN QuotedRules : QuotedRules[k].name = AppliedRuleName}

\* C12: a rule matches iff its day set is empty or contains the day of week
\* and the minute of day lies in [start, end), a window with end < start
\* wrapping past midnight: the default price is quoted exactly when no rule
\* covers the quote's day and time, and an applied rule covers them; a rule
\* alone with days = [] and the window 22:00-02:00 is applied at 23:30 and at
\* 01:00 on any day and not at 12:00.
C12_RuleMatchesDayAndWindow ==
    DynamicQuoted =>
        /\ AppliedRuleName = "Default Price"
              <=> \A k \in DOMAIN QuotedRules : ~RuleCovers(QuotedRules[k], QuotedAt)
        /\ \A k \in AppliedRules : RuleCovers(QuotedRules[k], QuotedAt)
        /\ ( /\ Len(QuotedRules) = 1
             /\ QuotedRules[1].days = {}
             /\ QuotedRules[1].start_time = T(2, 2, 0, 0)
             /\ QuotedRules[1].end_time = T(0, 2, 0, 0) )
           => /\ <<QuotedAt.hours, QuotedAt.minutes>> \in {<<23, 30>>, <<1, 0>>}
                    => AppliedRuleName = "r1"
              /\ <<QuotedAt.hours, QuotedAt.minutes>> = <<12, 0>>
                    => AppliedRuleName = "Default Price"

\* The overnight rule alone, with no day set, applied at 01:00.
C12_Witness ==
    /\ DynamicQuoted
    /\ Len(QuotedRules) = 1
    /\ QuotedRules[1].days = {}
    /\ QuotedRules[1].start_time = T(2, 2, 0, 0)
    /\ QuotedRules[1].end_time = T(0, 2, 0, 0)
    /\ <<QuotedAt.hours, QuotedAt.minutes>> = <<1, 0>>
    /\ AppliedRuleName = "r1"

(***************************************************************************)
(* Add-on groups.  A group document is                                     *)
(*   [id, type, selection_type, min_selections, max_selections, addons,    *)
(*    is_active]                                                           *)
(* and an add-on [id, price, is_active].  A group's name is its id.        *)
(***************************************************************************)
ADDON_TYPES == {"OPTIONAL", "MANDATORY"}
ADDON_GROUP_SELECTION == {"SINGLE", "MULTIPLE"}

\* a hook that derives the minimum and leaves max_selections as given
MutantPreValidateKeepsMax(group) ==
    [group EXCEPT !.min_selections =
        IF group.type = "MANDATORY" /\ group.min_selections = 0 THEN 1 ELSE @]

\* addonGroupSchema.pre('validate'): the selection constraints as saved.
AddonGroupPreValidate(group) ==
    LET min == IF group.type = "MANDATORY" /\ group.min_selections = 0
               THEN 1 ELSE group.min_selections
        max == IF group.selection_type = "SINGLE" THEN 1 ELSE group.max_selections
    IN [group EXCEPT !.min_selections = min, !.max_selections = max]

\* AddonService.create(data); id is the new document's _id.  A group the
\* validate hook refuses is not saved, and the error it raises has no status.
AddonGroupCreate(id, data) ==
    /\ addonGroups[id] = None
    /\ LET group == AddonGroupPreValidate([data EXCEPT !.id = id])
       IN IF group.min_selections > group.max_selections
          THEN /\ response' = Thrown("addon.create", 500,
                      Message("min_selections cannot be greater than max_selections", 0, ""))
               /\ UNCHANGED addonGroups
          ELSE /\ addonGroups' = [addonGroups EXCEPT ![id] = Some(group)]
               /\ response' = Returned("addon.create", 201, [id |-> id])
    /\ UNCHANGED <<now, categories, subcategories, items, bookings, requests>>

\* AddonService.updateAddon(groupId, addonId, addonData), is_active given
AddonSetActive(groupId, addonId, active) ==
    /\ IF addonGroups[groupId] = None
       THEN /\ response' = Thrown("addon.updateAddon", 404,
                                  Message("Add-on group not found", 0, ""))
            /\ UNCHANGED addonGroups
       ELSE LET group == Val(addonGroups[groupId])
                k == FirstIndex([j \in DOMAIN group.addons |-> group.addons[j].id = addonId])
            IN IF k = 0
               THEN /\ response' = Thrown("addon.updateAddon", 404,
                                          Message("Add-on not found", 0, ""))
                    /\ UNCHANGED addonGroups
               ELSE /\ addonGroups' =
                          [addonGroups EXCEPT ![groupId] =
                              Some(AddonGroupPreValidate(
                                  [group EXCEPT !.addons[k].is_active = active]))]
                    /\ response' = Returned("addon.updateAddon", 200, [id |-> groupId])
    /\ UNCHANGED <<now, categories, subcategories, items, bookings, requests>>

\* addonGroup.addons.filter(a => selectedAddonIds.includes(a._id.toString()))
SelectedAddons(group, selectedAddonIds) ==
    SelectSeq(group.addons, LAMBDA a : a.id \in SeqToSet(selectedAddonIds))

\* AddonService.calculateAddonPrice(groupId, selectedAddonIds)
AddonPrice(groupId, selectedAddonIds) ==
    LET found == FindById(addonGroups, groupId)
        group == Val(found)
        validation == validateSelections(group, selectedAddonIds)
    IN IF found = None
       THEN Thrown("calculateAddonPrice", 404, Message("Add-on group not found", 0, ""))
       ELSE IF ~validation.valid
       THEN Thrown("calculateAddonPrice", 400, validation.error)
       ELSE Returned("calculateAddonPrice", 200,
                [group_name |-> group.id,
                 selected_addons |-> SelectedAddons(group, selectedAddonIds),
                 total_price |-> calculateSelectedPrice(group, selectedAddonIds)])

\* AddonController.calculatePrice, POST /addon-groups/:id/calculate-price
AddonPriceExchange(groupId, addon_ids, result) ==
    [op |-> "POST /addon-groups/:id/calculate-price", status |-> result.status,
     request |-> [id |-> groupId, addon_ids |-> addon_ids], result |-> result]

PostAddonPrice(groupId, addon_ids) ==
    /\ response' = AddonPriceExchange(groupId, addon_ids, AddonPrice(groupId, addon_ids))
    /\ UNCHANGED <<now, categories, subcategories, items, addonGroups, bookings, requests>>

(***************************************************************************)
(* One add-on group of three add-ons is created, its add-ons switched on   *)
(* and off, and selections of up to MaxSelected ids are priced.            *)
(***************************************************************************)
MaxSelected == 2

AddonIds == {"a1", "a2", "a3"}
UnknownAddonId == "a9"

GroupAddons(a3Active) ==
    <<[id |-> "a1", price |-> 20 * Unit, is_active |-> TRUE],
      [id |-> "a2", price |-> 5 * Unit, is_active |-> TRUE],
      [id |-> "a3", price |-> 7 * Unit, is_active |-> a3Active]>>

AddonGroupCreateData ==
    {[id |-> NoId, type |-> t, selection_type |-> st, min_selections |-> min,
      max_selections |-> max, addons |-> GroupAddons(active), is_active |-> TRUE] :
        t \in ADDON_TYPES, st \in ADDON_GROUP_SELECTION,
        min \in 0..2, max \in 1..2, active \in BOOLEAN}

AddonSelections ==
    UNION {[1..n -> AddonIds \cup {UnknownAddonId}] : n \in 0..MaxSelected}

InitAddon == InitTax

NextAddon ==
    \/ \E data \in AddonGroupCreateData : AddonGroupCreate("g1", data)
    \/ \E a \in {"a2", "a3"}, active \in BOOLEAN : AddonSetActive("g1", a, active)
    \/ \E addon_ids \in AddonSelections : PostAddonPrice("g1", addon_ids)

SpecAddon == InitAddon /\ [][NextAddon]_vars

\* A selection was validated against its group.
SelectionAnswered ==
    /\ response.op = "POST /addon-groups/:id/calculate-price"
    /\ response.status \in {200, 400}

AnsweredGroup == Val(addonGroups[response.request.id])

\* The selected ids that are active add-ons of the group.
ValidSelected ==
    {a \in SeqToSet(response.request.addon_ids) : IsActiveAddon(AnsweredGroup, a)}

PriceOf(id) ==
    LET k == CHOOSE j \in DOMAIN AnsweredGroup.addons : AnsweredGroup.addons[j].id = id
    IN AnsweredGroup.addons[k].price

RECURSIVE SumPrices(_)
SumPrices(ids) ==
    IF ids = {} THEN 0
    ELSE LET a == CHOOSE x \in ids : TRUE IN PriceOf(a) + SumPrices(ids \ {a})

\* C13: only the selected ids that are active add-ons of the group count
\* (unknown and inactive ids are dropped without error); the selection is
\* rejected iff that count is below min_selections ("Minimum N") or above
\* max_selections ("Maximum N"), and an accepted selection is priced at the
\* sum of the counted add-ons: 0 for no valid id when min_selections = 0.
C13_SelectionCountWithinBounds ==
    SelectionAnswered =>
        LET n == Cardinality(ValidSelected)
        IN IF n < AnsweredGroup.min_selections
           THEN /\ response.status = 400
                /\ response.result.message =
                      Message("Minimum selection(s) required",
                              AnsweredGroup.min_selections, AnsweredGroup.id)
           ELSE IF n > AnsweredGroup.max_selections
           THEN /\ response.status = 400
                /\ response.result.message =
                      Message("Maximum selection(s) allowed",
                              AnsweredGroup.max_selections, AnsweredGroup.id)
           ELSE /\ response.status = 200
                /\ response.result.body.total_price = SumPrices(ValidSelected)

(***************************************************************************)
(* Availability.  BookingService.getAvailableSlots and the exchange of     *)
(* BookingController.getAvailableSlots, GET /bookings/availability.        *)
(***************************************************************************)
\* Booking.getBookingsForDate(itemId, date): the non-cancelled bookings of
\* the item and date (their order plays no part in the slot counts).
getBookingsForDate(itemId, date) ==
    {k \in DOMAIN bookings :
        /\ bookings[k].item = itemId
        /\ bookings[k].booking_date = date
        /\ bookings[k].status # "CANCELLED"}

SlotBookings(existingBookings, slot) ==
    {k \in existingBookings :
        isTimeOverlapping(bookings[k].start_time, bookings[k].end_time,
                          slot.start_time, slot.end_time)}

MutantSlotAlwaysAvailable(count, slot) == TRUE

\* is_available: slotBookings.length < slot.max_bookings
SlotIsAvailable(count, slot) == count < slot.max_bookings

getAvailableSlots(itemId, date) ==
    LET found == FindById(items, itemId)
        item == Val(found)
        daySlots == SelectSeq(item.availability_slots,
                              LAMBDA slot : slot.day = GetDay(date))
        existingBookings == getBookingsForDate(itemId, date)
    IN IF found = None
       THEN Thrown("getAvailableSlots", 404, Message("Item not found", 0, ""))
       ELSE IF ~item.is_bookable
       THEN Thrown("getAvailableSlots", 400,
                   Message("This item is not available for booking", 0, ""))
       ELSE IF Len(daySlots) = 0
       THEN Returned("getAvailableSlots", 200,
                     [available |-> FALSE, message |-> "No availability on this day",
                      slots |-> <<>>])
       ELSE Returned("getAvailableSlots", 200,
                [item_id |-> itemId, date |-> date, day_of_week |-> GetDay(date),
                 slots |->
                    [k \in DOMAIN daySlots |->
                        [start_time |-> daySlots[k].start_time,
                         end_time |-> daySlots[k].end_time,
                         max_bookings |-> daySlots[k].max_bookings,
                         current_bookings |->
                            Cardinality(SlotBookings(existingBookings, daySlots[k])),
                         is_available |->
                            SlotIsAvailable(
                                Cardinality(SlotBookings(existingBookings, daySlots[k])),
                                daySlots[k])]]])

AvailabilityExchange(item, date, result) ==
    [op |-> "GET /bookings/availability", status |-> result.status,
     request |-> [item |-> item, date |-> date], result |-> result]

GetAvailableSlots(item, date) ==
    /\ response' = AvailabilityExchange(item, date, getAvailableSlots(item, date))
    /\ UNCHANGED <<now, categories, subcategories, items, addonGroups, bookings, requests>>

(***************************************************************************)
(* One bookable item with its weekly slots, bookings of it on two Mondays  *)
(* and a Tuesday, and the slot listing of those days.                      *)
(***************************************************************************)
\* day numbers 1 and 8 are Mondays, 2 is a Tuesday
AvailabilityDates == {1, 2, 8}

SlotLists ==
    {<<>>,
     <<Slot(1, T(0, 9, 0, 0), T(1, 1, 0, 0), 2)>>,
     <<Slot(2, T(0, 9, 0, 0), T(1, 1, 0, 0), 1)>>,
     <<Slot(1, T(0, 9, 0, 0), T(1, 0, 0, 0), 1), Slot(1, T(1, 0, 0, 0), T(1, 1, 0, 0), 1)>>,
     <<Slot(1, T1(9, 0, 0), T(1, 0, 3, 0), 1), Slot(2, T(1, 0, 0, 0), T(1, 1, 0, 0), 2)>>}

ItemCreateDataAvailability == {BookableItem(slots) : slots \in SlotLists}

\* "09:00"-"10:00", "09:30"-"10:30", "10:00"-"11:00", "08:30"-"09:30",
\* "9:00"-"11:00"
AvailabilityIntervals ==
    {<<T(0, 9, 0, 0), T(1, 0, 0, 0)>>, <<T(0, 9, 3, 0), T(1, 0, 3, 0)>>,
     <<T(1, 0, 0, 0), T(1, 1, 0, 0)>>, <<T(0, 8, 3, 0), T(0, 9, 3, 0)>>,
     <<T1(9, 0, 0), T(1, 1, 0, 0)>>}

AvailabilityCreateData ==
    {BookingRequest("i1", d, t[1], t[2]) : d \in AvailabilityDates, t \in AvailabilityIntervals}

InitAvailability == InitBooking

NextAvailability ==
    \/ CategoryCreate("c1", PlainCategory)
    \/ \E data \in ItemCreateDataAvailability : ItemCreate("i1", data)
    \/ \E data \in AvailabilityCreateData :
          \E datetime \in BookingDatetimes(data.booking_date, data.start_time) :
             Len(bookings) < MaxBookings /\ BookingCreate(data, datetime)
    \/ \E id \in 1..MaxBookings : BookingCancel(id)
    \/ \E date \in AvailabilityDates : GetAvailableSlots("i1", date)

SpecAvailability == InitAvailability /\ [][NextAvailability]_vars

\* The booking create that the step is, for a bookable, active item.
AvailabilityChecked(data) ==
    /\ items[data.item] # None
    /\ Val(items[data.item]).is_bookable
    /\ Val(items[data.item]).is_active
    /\ \E datetime \in BookingDatetimes(data.booking_date, data.start_time) :
          BookingCreate(data, datetime)

\* Some slot of the date's day of week has the whole of [start, end) inside
\* its hours.
SlotContains(slot, data) ==
    /\ slot.day = data.booking_date % 7
    /\ toMinutes(slot.start_time) <= toMinutes(data.start_time)
    /\ toMinutes(data.end_time) <= toMinutes(slot.end_time)

WithinHours(data) ==
    LET slots == Val(items[data.item]).availability_slots
    IN Len(slots) = 0 \/ \E k \in DOMAIN slots : SlotContains(slots[k], data)

OutsideHours ==
    Thrown("booking.create", 400,
           Message("Requested time slot is not within available hours", 0, ""))

\* C14: an item that declares no slots is available at every time; otherwise
\* a time is available iff some slot of the date's day of week fully
\* contains [start, end), and a booking at a time that is not available is
\* refused with the 'not within available hours' reason.
C14_AvailableIffWithinSomeSlot ==
    [][\A data \in AvailabilityCreateData :
          AvailabilityChecked(data) => (response' = OutsideHours <=> ~WithinHours(data))]_vars

\* A booking that spans two adjacent slots of its day was refused.
C14_Witness ==
    /\ response = OutsideHours
    /\ items["i1"] # None
    /\ Len(Val(items["i1"]).availability_slots) = 2
    /\ Val(items["i1"]).availability_slots[2].day = 1

SlotsListed ==
    /\ response.op = "GET /bookings/availability"
    /\ response.status = 200

ListedItemSlots == Val(items[response.request.item]).availability_slots

\* The item's slots of the requested date's day of week, in their order.
SlotsOfDay ==
    SelectSeq(ListedItemSlots, LAMBDA slot : slot.day = response.request.date % 7)

\* The non-cancelled bookings of the item and date that overlap the slot.
BookingsInSlot(slot) ==
    {k \in DOMAIN bookings :
        /\ bookings[k].item = response.request.item
        /\ bookings[k].booking_date = response.request.date
        /\ bookings[k].status # "CANCELLED"
        /\ toMinutes(bookings[k].start_time) < toMinutes(slot.end_time)
        /\ toMinutes(bookings[k].end_time) > toMinutes(slot.start_time)}

\* C15: getAvailableSlots lists every slot of the date's day of week, each
\* with current_bookings = the number of non-cancelled bookings of the item
\* and date whose interval overlaps the slot's window, and is_available =
\* (current_bookings < max_bookings).
C15_SlotsListedWithBookingCounts ==
    SlotsListed =>
        LET listed == response.result.body.slots
        IN /\ Len(listed) = Len(SlotsOfDay)
           /\ \A k \in DOMAIN listed :
                 /\ listed[k].start_time = SlotsOfDay[k].start_time
                 /\ listed[k].end_time = SlotsOfDay[k].end_time
                 /\ listed[k].max_bookings = SlotsOfDay[k].max_bookings
                 /\ listed[k].current_bookings = Cardinality(BookingsInSlot(SlotsOfDay[k]))
                 /\ listed[k].is_available
                       <=> listed[k].current_bookings < SlotsOfDay[k].max_bookings

\* A slot for two bookings listed as full, with two bookings in it.
C15_Witness ==
    /\ SlotsListed
    /\ Len(response.result.body.slots) = 1
    /\ response.result.body.slots[1].max_bookings = 2
    /\ response.result.body.slots[1].current_bookings = 2
    /\ ~response.result.body.slots[1].is_available

(***************************************************************************)
(* Quotes and bookings of one item: its category is taxed or not, it has   *)
(* an add-on group or none, it is switched off and on, and it is quoted    *)
(* and booked with add-on selections while the clock runs.                 *)
(***************************************************************************)
TaxedCategory == [tax_applicable |-> TRUE, tax_percentage |-> Some(5), is_active |-> TRUE]

\* a mandatory group for one add-on, and an optional group for up to two
QuoteGroupData ==
    {[id |-> NoId, type |-> "MANDATORY", selection_type |-> "SINGLE", min_selections |-> 0,
      max_selections |-> 1, addons |-> GroupAddons(FALSE), is_active |-> TRUE],
     [id |-> NoId, type |-> "OPTIONAL", selection_type |-> "MULTIPLE", min_selections |-> 0,
      max_selections |-> 2, addons |-> GroupAddons(FALSE), is_active |-> TRUE]}

\* 100.00 and 0.125
QuoteBasePrices == {100 * Unit, 125}

ItemCreateDataQuote ==
    {[category |-> "c1", subcategory |-> NoId, tax_applicable |-> None,
      tax_percentage |-> None, pricing |-> StaticPricing(price), is_bookable |-> TRUE,
      availability_slots |-> <<>>, addon_groups |-> groups, is_active |-> active] :
        price \in QuoteBasePrices, groups \in {<<>>, <<"g1">>}, active \in BOOLEAN}

ItemUpdateDataQuote == {[NoItemUpdate EXCEPT !.is_active = Some(active)] : active \in BOOLEAN}

Selection(group, ids) == [addon_group |-> group, addon_ids |-> ids]

QuoteSelections ==
    {<<>>,
     <<Selection("g1", <<"a1">>)>>,
     <<Selection("g1", <<"a1", "a2">>)>>,
     <<Selection("g1", <<"a3">>)>>,
     <<Selection("g1", <<"a2">>), Selection("g1", <<"a1", "a2", UnknownAddonId>>)>>}

QuoteQuantities == {1, 2}

QuoteBookingData ==
    {[BookingRequest("i1", 1, T(0, 9, 0, 0), T(1, 0, 0, 0))
         EXCEPT !.quantity = 2, !.selected_addons = addons] : addons \in QuoteSelections}

InitQuote == InitBooking

NextQuote ==
    \/ \E data \in {PlainCategory, TaxedCategory} : CategoryCreate("c1", data)
    \/ \E data \in QuoteGroupData : AddonGroupCreate("g1", data)
    \/ \E data \in ItemCreateDataQuote : ItemCreate("i1", data)
    \/ \E data \in ItemUpdateDataQuote : ItemUpdate("i1", data)
    \/ \E q \in QuoteQuantities, addons \in QuoteSelections :
          GetPrice("i1", q, NoDatetime, addons)
    \/ \E data \in QuoteBookingData :
          \E datetime \in BookingDatetimes(data.booking_date, data.start_time) :
             BookingCreate(data, datetime)
    \/ Tick

SpecQuote == InitQuote /\ [][NextQuote]_vars

PriceAnswered == response.op = "GET /items/:id/price"

\* The item exists and is switched off.
Inactive(id) == items[id] # None /\ ~Val(items[id]).is_active

QuotedItemInactive == Inactive(response.request.id)

\* C16: a quote and a booking create against an item whose is_active is
\* false fail with a 400 error: the quote returns no price breakdown and the
\* booking create stores no booking.
C16_InactiveItemIsRefused ==
    [][/\ (PriceAnswered' /\ QuotedItemInactive')
            => response'.result =
                  Thrown("calculatePrice", 400, Message("Item is not available", 0, ""))
       /\ \A data \in QuoteBookingData :
             ( /\ Inactive(data.item)
               /\ \E datetime \in BookingDatetimes(data.booking_date, data.start_time) :
                     BookingCreate(data, datetime) )
             => /\ response'.op = "booking.create"
                /\ response'.status = 400
                /\ bookings' = bookings]_vars

\* The item was switched off and a quote of it was refused.
C16_Witness ==
    /\ PriceAnswered
    /\ QuotedItemInactive
    /\ response.status = 400

\* The selections (by position) that fail validation against their group,
\* a group attached to the item.
FailingSelections(id, addons) ==
    LET groups == PopulateAddonGroups(Val(items[id]).addon_groups)
    IN {k \in DOMAIN addons :
          /\ FindGroup(groups, addons[k].addon_group) # None
          /\ ~validateSelections(Val(FindGroup(groups, addons[k].addon_group)),
                                 addons[k].addon_ids).valid}

\* The validation reason of the first selection that fails.
FailureReason(id, addons) ==
    LET k == CHOOSE j \in FailingSelections(id, addons) :
                 \A other \in FailingSelections(id, addons) : j <= other
        groups == PopulateAddonGroups(Val(items[id]).addon_groups)
    IN validateSelections(Val(FindGroup(groups, addons[k].addon_group)),
                          addons[k].addon_ids).error

\* The quoted item is there and active.
Quotable(id) == items[id] # None /\ Val(items[id]).is_active

QuoteHadFailingSelection ==
    /\ PriceAnswered
    /\ Quotable(response.request.id)
    /\ FailingSelections(response.request.id, response.request.addons) # {}

QuoteFailureReason == FailureReason(response.request.id, response.request.addons)

\* C17: when an add-on selection of a quote fails validation against its
\* group, the whole quote fails with that group's validation reason and no
\* breakdown is returned; a booking create whose quote so fails returns that
\* error and stores no booking.
C17_FailedSelectionAbortsQuote ==
    /\ [](QuoteHadFailingSelection
             => response.result = Thrown("calculatePrice", 400, QuoteFailureReason))
    /\ [][\A data \in QuoteBookingData :
             ( /\ Quotable(data.item)
               /\ FailingSelections(data.item, data.selected_addons) # {}
               /\ findConflicts(data.item, data.booking_date, data.start_time,
                                data.end_time, NoBooking) = {}
               /\ \E datetime \in BookingDatetimes(data.booking_date, data.start_time) :
                     BookingCreate(data, datetime) )
             => /\ response' = Thrown("booking.create", 400,
                                      FailureReason(data.item, data.selected_addons))
                /\ bookings' = bookings]_vars

\* A quote with a valid selection followed by one with too many add-ons was
\* refused.
C17_Witness ==
    /\ QuoteHadFailingSelection
    /\ Len(response.request.addons) = 2
    /\ response.status = 400

QuoteReturned == PriceAnswered /\ response.status = 200

QuoteBody == response.result.body

\* x rounded to two decimals, x = n / d thousandths (n >= 0), half up.
Round2(n, d) == Hundredth * ((2 * n + d * Hundredth) \div (2 * d * Hundredth))

\* C18: a quote returns subtotal = pricing amount + add-ons total, tax
\* amount = round2(subtotal x percentage / 100) and final price =
\* round2(subtotal + tax amount), the tax amount being the rounded one.
C18_FinalPriceAddsRoundedTax ==
    QuoteReturned =>
        /\ QuoteBody.subtotal
              = QuoteBody.pricing_details.base_price
                - QuoteBody.pricing_details.discount_amount + QuoteBody.addons_total
        /\ QuoteBody.tax.amount = Round2(QuoteBody.subtotal * QuoteBody.tax.percentage, 100)
        /\ QuoteBody.final_price = Round2(QuoteBody.subtotal + QuoteBody.tax.amount, 1)

\* Static base_price 100, quantity 2, one add-on priced 20 and 5% tax from
\* the category: 200, 20, 220, 11.00, 231.00.
C18_WorkedExample ==
    ( /\ QuoteReturned
      /\ Val(items[response.request.id]).pricing = StaticPricing(100 * Unit)
      /\ Val(items[response.request.id]).addon_groups = <<"g1">>
      /\ Val(items[response.request.id]).tax_applicable = None
      /\ response.request.quantity = 2
      /\ response.request.addons = <<Selection("g1", <<"a1">>)>>
      /\ Val(items[response.request.id]).category = "c1"
      /\ categories["c1"] = Some(TaxedCategory) )
    => /\ QuoteBody.pricing_details.base_price = 200 * Unit
       /\ QuoteBody.addons_total = 20 * Unit
       /\ QuoteBody.subtotal = 220 * Unit
       /\ QuoteBody.tax.inherited_from = "category"
       /\ QuoteBody.tax.amount = 11 * Unit
       /\ QuoteBody.final_price = 231 * Unit

(***************************************************************************)
(* Quoting twice.  GET /items/:id/price with the datetime of the query, or *)
(* with the clock's when the query has none; the clock moves between       *)
(* calls.  The item is priced by time-window rules or by a fixed price.    *)
(***************************************************************************)
\* new Date() at tick `now`: day 1 at 09:00, 16:00, 23:00, 06:00, ...
ClockDatetime == DateTime(1, (9 + 7 * now) % 24, 0)

\* a controller that prices every query at the clock's time
MutantQueryDatetimeIgnored(given) == ClockDatetime

\* datetime: req.query.datetime ? new Date(req.query.datetime) : new Date()
QueryDatetime(given) == IF given = None THEN ClockDatetime ELSE Val(given)

GetItemPrice(id, quantity, given, addons) ==
    /\ response' = PriceExchange(PriceQuery(id, quantity, given, addons),
                                 Quote(id, quantity, QueryDatetime(given), addons))
    /\ UNCHANGED <<now, categories, subcategories, items, addonGroups, bookings, requests>>

\* r1 at night (22:00-02:00), r2 in the morning (9:00-12:30), any day
RequoteRules ==
    <<DynamicRule(1, [days |-> {}, start_time |-> T(2, 2, 0, 0),
                      end_time |-> T(0, 2, 0, 0), priority |-> 0]),
      DynamicRule(2, [days |-> {}, start_time |-> T1(9, 0, 0),
                      end_time |-> T(1, 2, 3, 0), priority |-> 1])>>

RequotePricings == {DynamicPricing(RequoteRules), StaticPricing(100 * Unit)}

ItemCreateDataRequote ==
    {[category |-> "c1", subcategory |-> NoId, tax_applicable |-> None,
      tax_percentage |-> None, pricing |-> p, is_bookable |-> FALSE,
      availability_slots |-> <<>>, addon_groups |-> groups, is_active |-> TRUE] :
        p \in RequotePricings, groups \in {<<>>, <<"g1">>}}

ItemUpdateDataRequote ==
    {[NoItemUpdate EXCEPT !.is_active = Some(active)] : active \in BOOLEAN}
    \cup {[NoItemUpdate EXCEPT !.pricing = Some(p)] : p \in RequotePricings}

RequoteDatetimes == {None, Some(DateTime(1, 9, 0)), Some(DateTime(1, 23, 0))}

RequoteSelections == {<<>>, <<Selection("g1", <<"a1">>)>>}

InitRequote == InitTax

NextRequote ==
    \/ \E data \in {PlainCategory, TaxedCategory} : CategoryCreate("c1", data)
    \/ \E data \in QuoteGroupData : AddonGroupCreate("g1", data)
    \/ \E data \in ItemCreateDataRequote : ItemCreate("i1", data)
    \/ \E data \in ItemUpdateDataRequote : ItemUpdate("i1", data)
    \/ \E q \in QuoteQuantities, given \in RequoteDatetimes, addons \in RequoteSelections :
          GetItemPrice("i1", q, given, addons)
    \/ Tick

SpecRequote == InitRequote /\ [][NextRequote]_vars

\* The step answers a query equal to the one whose answer is still the last
\* response: every step since that answer left the catalog alone, and the
\* datetime of the two queries is the one they carry.
SameQuoteAgain ==
    /\ PriceAnswered
    /\ response.request.datetime # None
    /\ \E q \in QuoteQuantities, given \in RequoteDatetimes, addons \in RequoteSelections :
          /\ PriceQuery("i1", q, given, addons) = response.request
          /\ GetItemPrice("i1", q, given, addons)

\* a breakdown with its calculated_at left out
Breakdown(result) ==
    IF result.status = 200 THEN [result EXCEPT !.body.calculated_at = 0] ELSE result

\* C19 as stated: quoting the same item, quantity, datetime and add-on
\* selections twice with no change of catalog state in between yields the
\* same answer, every returned field equal.
C19_Original_EveryFieldEqual ==
    [][SameQuoteAgain => response'.result = response.result]_vars

\* C19: quoting the same item, quantity, datetime and add-on selections
\* twice with no change of catalog state in between yields the same price
\* breakdown, every returned field other than calculated_at equal.
C19_SameQuoteSameBreakdown ==
    [][SameQuoteAgain => Breakdown(response'.result) = Breakdown(response.result)]_vars

\* What the last query is answered when it is sent again now.
QuoteAgain ==
    Quote(response.request.id, response.request.quantity,
          QueryDatetime(response.request.datetime), response.request.addons)

\* A rule-priced quote for a given datetime was answered, the clock has
\* moved since and the catalog has not: sent again, the query gets the
\* same breakdown with another calculated_at.
C19_Witness ==
    /\ PriceAnswered
    /\ response.status = 200
    /\ response.request.datetime # None
    /\ QuoteBody.pricing_details.pricing_type = "DYNAMIC"
    /\ QuoteBody.pricing_details.unit_price = 2 * Unit
    /\ QuoteBody.calculated_at < now
    /\ QuoteAgain # response.result
    /\ Breakdown(QuoteAgain) = Breakdown(response.result)

(***************************************************************************)
(* Soft delete and restore of categories and subcategories.                *)
(***************************************************************************)
\* Model.updateMany({ [field]: id }, { is_active: false })
DeactivateWhere(store, field, id) ==
    [k \in DOMAIN store |->
        IF store[k] # None /\ Val(store[k])[field] = id
        THEN Some([Val(store[k]) EXCEPT !.is_active = FALSE])
        ELSE store[k]]

\* CategoryService.delete(id)
CategoryDelete(id) ==
    /\ IF categories[id] = None
       THEN /\ response' = Thrown("category.delete", 404, Message("Category not found", 0, id))
            /\ UNCHANGED <<categories, subcategories, items>>
       ELSE /\ categories' = [categories EXCEPT ![id] = Some([Val(@) EXCEPT !.is_active = FALSE])]
            /\ subcategories' = DeactivateWhere(subcategories, "category", id)
            /\ items' = DeactivateWhere(items, "category", id)
            /\ response' = Returned("category.delete", 200, [id |-> id])
    /\ UNCHANGED <<now, addonGroups, bookings, requests>>

\* CategoryService.restore(id)
CategoryRestore(id) ==
    /\ IF categories[id] = None
       THEN /\ response' = Thrown("category.restore", 404, Message("Category not found", 0, id))
            /\ UNCHANGED categories
       ELSE /\ categories' = [categories EXCEPT
                                ![id] = Some(CategoryPreSave([Val(@) EXCEPT !.is_active = TRUE]))]
            /\ response' = Returned("category.restore", 200, [id |-> id])
    /\ UNCHANGED <<now, subcategories, items, addonGroups, bookings, requests>>

\* Model.countDocuments({ [field]: id }) > 0
AnyWhere(store, field, id) ==
    \E k \in DOMAIN store : store[k] # None /\ Val(store[k])[field] = id

\* CategoryService.hardDelete(id)
CategoryHardDelete(id) ==
    /\ IF categories[id] = None
       THEN /\ response' = Thrown("category.hardDelete", 404,
                                  Message("Category not found", 0, id))
            /\ UNCHANGED categories
       ELSE IF AnyWhere(subcategories, "category", id)
       THEN /\ response' = Thrown("category.hardDelete", 400,
                     Message("Cannot delete category with existing subcategories", 0, id))
            /\ UNCHANGED categories
       ELSE IF AnyWhere(items, "category", id)
       THEN /\ response' = Thrown("category.hardDelete", 400,
                     Message("Cannot delete category with existing items", 0, id))
            /\ UNCHANGED categories
       ELSE /\ categories' = [categories EXCEPT ![id] = None]
            /\ response' = Returned("category.hardDelete", 200, [id |-> id])
    /\ UNCHANGED <<now, subcategories, items, addonGroups, bookings, requests>>

\* SubcategoryService.delete(id)
SubcategoryDelete(id) ==
    /\ IF subcategories[id] = None
       THEN /\ response' = Thrown("subcategory.delete", 404,
                                  Message("Subcategory not found", 0, id))
            /\ UNCHANGED <<subcategories, items>>
       ELSE /\ subcategories' = [subcategories EXCEPT
                                   ![id] = Some([Val(@) EXCEPT !.is_active = FALSE])]
            /\ items' = DeactivateWhere(items, "subcategory", id)
            /\ response' = Returned("subcategory.delete", 200, [id |-> id])
    /\ UNCHANGED <<now, categories, addonGroups, bookings, requests>>

\* a restore that only asks whether the parent exists
MutantParentMissing(category) == category = None

\* if (!category || !category.is_active)
ParentUnavailable(category) == category = None \/ ~Val(category).is_active

RestoreRefused ==
    Message("Cannot restore subcategory - parent category is inactive", 0, "")

\* SubcategoryService.restore(id)
SubcategoryRestore(id) ==
    /\ IF subcategories[id] = None
       THEN /\ response' = Thrown("subcategory.restore", 404,
                                  Message("Subcategory not found", 0, ""))
            /\ UNCHANGED subcategories
       ELSE IF ParentUnavailable(FindById(categories, Val(subcategories[id]).category))
       THEN /\ response' = Thrown("subcategory.restore", 400, RestoreRefused)
            /\ UNCHANGED subcategories
       ELSE /\ subcategories' = [subcategories EXCEPT
                                   ![id] = Some([Val(@) EXCEPT !.is_active = TRUE])]
            /\ response' = Returned("subcategory.restore", 200, [id |-> id])
    /\ UNCHANGED <<now, categories, items, addonGroups, bookings, requests>>

SubcategoryCreateDataRestore ==
    {[category |-> c, tax_applicable |-> None, tax_percentage |-> None, is_active |-> a] :
        c \in CatIds, a \in BOOLEAN}

\* a move to another category, or the active flag set directly
SubcategoryUpdateDataRestore ==
    {[category |-> Some(c), tax_applicable |-> None, tax_percentage |-> None,
      is_active |-> None] : c \in CatIds}
    \cup {[category |-> None, tax_applicable |-> None, tax_percentage |-> None,
           is_active |-> Some(a)] : a \in BOOLEAN}

ItemCreateDataRestore ==
    {[category |-> NoId, subcategory |-> "s1", tax_applicable |-> None,
      tax_percentage |-> None, pricing |-> StaticPricing(TaxItemPrice), is_bookable |-> FALSE,
      availability_slots |-> <<>>, addon_groups |-> <<>>, is_active |-> TRUE]}

InitRestore == InitTax

NextRestore ==
    \/ \E id \in CatIds : CategoryCreate(id, PlainCategory)
    \/ \E id \in CatIds : CategoryDelete(id)
    \/ \E id \in CatIds : CategoryRestore(id)
    \/ \E id \in CatIds : CategoryHardDelete(id)
    \/ \E data \in SubcategoryCreateDataRestore : SubcategoryCreate("s1", data)
    \/ \E data \in SubcategoryUpdateDataRestore : SubcategoryUpdate("s1", data)
    \/ SubcategoryDelete("s1")
    \/ SubcategoryRestore("s1")
    \/ \E data \in ItemCreateDataRestore : ItemCreate("i1", data)

SpecRestore == InitRestore /\ [][NextRestore]_vars

\* The parent category of a stored subcategory, None when it is missing.
ParentOf(id) == FindById(categories, Val(subcategories[id]).category)

ParentActive(id) == ParentOf(id) # None /\ Val(ParentOf(id)).is_active

SubActive(id) == Val(subcategories[id]).is_active

\* C20: restoring a subcategory whose parent category is inactive or missing
\* is refused with a 400 error and leaves the subcategory as it was, so an
\* inactive one stays inactive; the restore makes it active only when the
\* parent category is active at that time.
C20_RestoreRefusedUnderInactiveParent ==
    [][\A id \in SubIds :
          (subcategories[id] # None /\ SubcategoryRestore(id))
          => /\ ~ParentActive(id)
                => /\ response' = Thrown("subcategory.restore", 400, RestoreRefused)
                   /\ subcategories' = subcategories
             /\ ParentActive(id)
                => /\ response'.status = 200
                   /\ SubActive(id)'
             /\ (~SubActive(id) /\ SubActive(id)') => ParentActive(id)]_vars

\* Every stored subcategory has a stored parent: a category with
\* subcategories is never removed, so the missing-parent branch of the restore
\* is not taken by calls of the services made one after another.
ParentStored == \A id \in SubIds : subcategories[id] # None => ParentOf(id) # None

\* A restore of a soft-deleted subcategory under a soft-deleted category was
\* refused.
C20_Witness ==
    /\ response = Thrown("subcategory.restore", 400, RestoreRefused)
    /\ subcategories["s1"] # None
    /\ ~SubActive("s1")
    /\ ParentOf("s1") # None
    /\ ~ParentActive("s1")

(***************************************************************************)
(* The catalog changes under a stored booking: a taxed category, a         *)
(* subcategory, an add-on group and an item are created, the item is       *)
(* booked once with an add-on, and then tax settings, the item's pricing   *)
(* and the add-on's price and active flag are changed.                     *)
(***************************************************************************)
NoAddonUpdate == [price |-> None, is_active |-> None]

\* the add-on after Object.assign(addon, addonData)
AssignedAddon(addon, addonData) ==
    [addon EXCEPT !.price = Assigned(addonData.price, addon.price),
                  !.is_active = Assigned(addonData.is_active, addon.is_active)]

\* a stored booking with the prices of its selections of a group set to 0
Repriced(booking, groupId) ==
    [booking EXCEPT !.selected_addons =
        [j \in DOMAIN booking.selected_addons |->
            IF booking.selected_addons[j].addon_group = groupId
            THEN [booking.selected_addons[j] EXCEPT !.price = 0]
            ELSE booking.selected_addons[j]]]

\* an update of an add-on that also rewrites the bookings that selected it
MutantUpdateAddonRewritesBookings(groupId, addonId, addonData) ==
    /\ addonGroups[groupId] # None
    /\ addonGroups' = addonGroups
    /\ bookings' = [b \in DOMAIN bookings |-> Repriced(bookings[b], groupId)]
    /\ response' = Returned("addon.updateAddon", 200, [id |-> groupId])
    /\ UNCHANGED <<now, categories, subcategories, items, requests>>

\* AddonService.updateAddon(groupId, addonId, addonData)
UpdateAddon(groupId, addonId, addonData) ==
    /\ IF addonGroups[groupId] = None
       THEN /\ response' = Thrown("addon.updateAddon", 404,
                                  Message("Add-on group not found", 0, ""))
            /\ UNCHANGED addonGroups
       ELSE LET group == Val(addonGroups[groupId])
                k == FirstIndex([j \in DOMAIN group.addons |-> group.addons[j].id = addonId])
            IN IF k = 0
               THEN /\ response' = Thrown("addon.updateAddon", 404,
                                          Message("Add-on not found", 0, ""))
                    /\ UNCHANGED addonGroups
               ELSE /\ addonGroups' =
                          [addonGroups EXCEPT ![groupId] =
                              Some(AddonGroupPreValidate(
                                  [group EXCEPT
                                      !.addons[k] = AssignedAddon(@, addonData)]))]
                    /\ response' = Returned("addon.updateAddon", 200, [id |-> groupId])
    /\ UNCHANGED <<now, categories, subcategories, items, bookings, requests>>

FrameCategoryUpdateData ==
    {[tax_applicable |-> Some(a), tax_percentage |-> Some(18), is_active |-> None] :
        a \in BOOLEAN}

FrameSubcategoryCreateData ==
    {[category |-> "c1", tax_applicable |-> None, tax_percentage |-> None, is_active |-> TRUE]}

FrameSubcategoryUpdateData ==
    {[category |-> None, tax_applicable |-> Some(Some(TRUE)),
      tax_percentage |-> Some(Some(18)), is_active |-> None]}

\* the item is of c1 alone or of s1 of c1
FrameItemCreateData ==
    {[category |-> "c1", subcategory |-> x, tax_applicable |-> None,
      tax_percentage |-> None, pricing |-> StaticPricing(100 * Unit), is_bookable |-> TRUE,
      availability_slots |-> <<>>, addon_groups |-> <<"g1">>, is_active |-> TRUE] :
        x \in {NoId, "s1"}}

FrameItemUpdateData ==
    {[NoItemUpdate EXCEPT !.pricing = Some(StaticPricing(50 * Unit))],
     [NoItemUpdate EXCEPT !.tax_applicable = Some(Some(TRUE)),
                          !.tax_percentage = Some(Some(18))]}

FrameAddonUpdateData ==
    {[NoAddonUpdate EXCEPT !.price = Some(30 * Unit)],
     [NoAddonUpdate EXCEPT !.is_active = Some(FALSE)]}

FrameGroupData ==
    [id |-> NoId, type |-> "OPTIONAL", selection_type |-> "MULTIPLE", min_selections |-> 0,
     max_selections |-> 2, addons |-> GroupAddons(TRUE), is_active |-> TRUE]

FrameBookingData ==
    [BookingRequest("i1", 1, T(0, 9, 0, 0), T(1, 0, 0, 0))
        EXCEPT !.quantity = 2, !.selected_addons = <<Selection("g1", <<"a1">>)>>]

InitFrame == InitBooking

NextFrame ==
    \/ CategoryCreate("c1", TaxedCategory)
    \/ \E data \in FrameSubcategoryCreateData : SubcategoryCreate("s1", data)
    \/ AddonGroupCreate("g1", FrameGroupData)
    \/ \E data \in FrameItemCreateData : ItemCreate("i1", data)
    \/ \E datetime \in BookingDatetimes(FrameBookingData.booking_date,
                                        FrameBookingData.start_time) :
          bookings = <<>> /\ BookingCreate(FrameBookingData, datetime)
    \/ \E data \in FrameCategoryUpdateData : CategoryUpdate("c1", data)
    \/ \E data \in FrameSubcategoryUpdateData : SubcategoryUpdate("s1", data)
    \/ \E data \in FrameItemUpdateData : ItemUpdate("i1", data)
    \/ \E data \in FrameAddonUpdateData : UpdateAddon("g1", "a1", data)

SpecFrame == InitFrame /\ [][NextFrame]_vars

CatalogOps ==
    {"category.create", "category.update", "subcategory.create", "subcategory.update",
     "item.create", "item.update", "addon.create", "addon.updateAddon"}

\* The prices a stored booking carries.
StoredPrices(booking) ==
    [price_breakdown |-> booking.price_breakdown,
     addon_prices |-> [j \in DOMAIN booking.selected_addons |->
                          booking.selected_addons[j].price]]

\* C21: once a booking is created, a change of catalog state (a category,
\* subcategory or item tax setting, the item's pricing config, an add-on's
\* price or active flag) leaves the booking's stored price_breakdown and the
\* stored prices of its selected add-ons unchanged.
C21_CatalogChangeKeepsStoredPrices ==
    [][(bookings # <<>> /\ response'.op \in CatalogOps)
          => /\ DOMAIN bookings' = DOMAIN bookings
             /\ \A b \in DOMAIN bookings :
                   StoredPrices(bookings'[b]) = StoredPrices(bookings[b])]_vars

\* What the stored booking would be quoted now.
FrameQuoteNow ==
    Quote(bookings[1].item, bookings[1].quantity, NoDatetime,
          UpdateAddonsForPricing(bookings[1], NoBookingUpdate))

\* The catalog was changed under a stored booking: the booking keeps 231.00
\* with the add-on at 20.00 while the item is now quoted another price, or
\* not at all.
C21_Witness ==
    /\ bookings # <<>>
    /\ response.op \in {"category.update", "subcategory.update", "item.update",
                        "addon.updateAddon"}
    /\ response.status = 200
    /\ bookings[1].price_breakdown.final_price = 231 * Unit
    /\ bookings[1].selected_addons[1].price = 20 * Unit
    /\ \/ FrameQuoteNow.status # 200
       \/ PriceBreakdown(FrameQuoteNow.body) # bookings[1].price_breakdown

(***************************************************************************)
(* Bookings of an item priced by time-window rules are created and then    *)
(* revised: moved to another time or day, or given another quantity.       *)
(***************************************************************************)
RebookItem ==
    [category |-> "c1", subcategory |-> NoId, tax_applicable |-> None,
     tax_percentage |-> None, pricing |-> DynamicPricing(RequoteRules),
     is_bookable |-> TRUE, availability_slots |-> <<>>, addon_groups |-> <<>>,
     is_active |-> TRUE]

\* "09:00"-"10:00" in the morning rule, "13:00"-"14:00" in no rule,
\* "23:00"-"23:30" in the night rule
RebookIntervals ==
    {<<T(0, 9, 0, 0), T(1, 0, 0, 0)>>, <<T(1, 3, 0, 0), T(1, 4, 0, 0)>>,
     <<T(2, 3, 0, 0), T(2, 3, 3, 0)>>}

RebookCreateData ==
    {BookingRequest("i1", 1, t[1], t[2]) : t \in RebookIntervals}

RebookQuantities == {2, 3}

RebookUpdateData ==
    {[NoBookingUpdate EXCEPT !.start_time = Some(t[1]), !.end_time = Some(t[2])] :
        t \in RebookIntervals}
    \cup {[NoBookingUpdate EXCEPT !.booking_date = Some(2)]}
    \cup {[NoBookingUpdate EXCEPT !.quantity = Some(q)] : q \in RebookQuantities}
    \cup {[NoBookingUpdate EXCEPT !.quantity = Some(2), !.start_time = Some(T(1, 3, 0, 0)),
                                  !.end_time = Some(T(1, 4, 0, 0))]}

InitRebook == InitBooking

NextRebook ==
    \/ CategoryCreate("c1", TaxedCategory)
    \/ ItemCreate("i1", RebookItem)
    \/ \E data \in RebookCreateData :
          \E datetime \in BookingDatetimes(data.booking_date, data.start_time) :
             Len(bookings) < MaxBookings /\ BookingCreate(data, datetime)
    \/ \E id \in 1..MaxBookings, data \in RebookUpdateData :
          \E datetime \in UpdateDatetimes(id, data) :
             BookingUpdate(id, data, datetime)

SpecRebook == InitRebook /\ [][NextRebook]_vars

\* The step stores an update of booking id.
UpdateStored(id) ==
    /\ id \in DOMAIN bookings
    /\ response'.op = "booking.update"
    /\ response'.status = 200
    /\ response'.body.id = id

TimeRevised(id) ==
    <<bookings'[id].booking_date, bookings'[id].start_time, bookings'[id].end_time>>
        # <<bookings[id].booking_date, bookings[id].start_time, bookings[id].end_time>>

Revised(id) ==
    \/ TimeRevised(id)
    \/ bookings'[id].quantity # bookings[id].quantity
    \/ bookings'[id].selected_addons # bookings[id].selected_addons

\* The breakdowns a quote of the booking as stored may give: one for the
\* Date its booking_date and start_time parse to, one for an Invalid Date.
Requotes(booking) ==
    {PriceBreakdown(Quote(booking.item, booking.quantity, datetime,
                          UpdateAddonsForPricing(booking, NoBookingUpdate)).body) :
        datetime \in BookingDatetimes(booking.booking_date, booking.start_time)}

QuantityRevisionRequotes ==
    [][\A id \in 1..MaxBookings :
          (UpdateStored(id) /\ bookings'[id].quantity # bookings[id].quantity)
          => bookings'[id].price_breakdown \in Requotes(bookings'[id])]_vars

\* Whether the item of booking id is open for the booking's time.
WithinAvailability(booking) ==
    checkAvailability(Val(items[booking.item]), booking.booking_date,
                      booking.start_time, booking.end_time).available

\* C23: the availability check runs when a booking is updated as well as
\* when it is created: an update that moves a booking to a date or interval
\* not contained in any of the item's availability slots for that day is
\* rejected and the booking keeps its previous time.
C23_UpdateChecksAvailability ==
    [][\A id \in 1..MaxBookings :
          (UpdateStored(id) /\ TimeRevised(id)) => WithinAvailability(bookings'[id])]_vars

\* The part of C23 on create: a booking is stored by create only within the
\* item's availability.
CreateChecksAvailability ==
    [][(response'.op = "booking.create" /\ response'.status = 201)
          => WithinAvailability(bookings'[Len(bookings')])]_vars

(***************************************************************************)
(* Pricing configs at write time: an item is created and re-priced with    *)
(* configs of every type, well-formed and malformed, and quoted.           *)
(***************************************************************************)
WriteTiers ==
    {<<[min_quantity |-> 1, max_quantity |-> 2, price |-> 10 * Unit],
       [min_quantity |-> 3, max_quantity |-> 3, price |-> 8 * Unit]>>,
     <<[min_quantity |-> 2, max_quantity |-> 3, price |-> 8 * Unit],
       [min_quantity |-> 1, max_quantity |-> 2, price |-> 10 * Unit]>>,
     <<>>}

\* of each type a config that is well-formed and the ones that miss a part
WritePricings ==
    {StaticPricing(100 * Unit), [StaticPricing(0) EXCEPT !.base_price = None]}
    \cup {TieredPricing(t) : t \in WriteTiers}
    \cup {DiscountedPricing(100 * Unit, "PERCENTAGE", 50),
          [DiscountedPricing(100 * Unit, "FLAT", 0) EXCEPT !.discount = None],
          [DiscountedPricing(0, "FLAT", 0) EXCEPT !.base_price = None]}
    \cup {DynamicPricing(RequoteRules), DynamicPricing(<<>>),
          [DynamicPricing(RequoteRules) EXCEPT !.default_price = None]}
    \cup {[StaticPricing(0) EXCEPT !.type = "COMPLIMENTARY"],
          [StaticPricing(100 * Unit) EXCEPT !.type = "HOURLY"],
          [StaticPricing(100 * Unit) EXCEPT !.type = ""]}

ItemCreateDataWrite ==
    {[category |-> c, subcategory |-> NoId, tax_applicable |-> None,
      tax_percentage |-> None, pricing |-> p, is_bookable |-> FALSE,
      availability_slots |-> <<>>, addon_groups |-> <<>>, is_active |-> TRUE] :
        c \in CatIds, p \in WritePricings}

ItemUpdateDataWrite ==
    {[NoItemUpdate EXCEPT !.pricing = Some(p)] : p \in WritePricings}
    \cup {[NoItemUpdate EXCEPT !.category = Some(c)] : c \in CatIds}

WriteQuantities == {1, 3}

InitWrite == InitTax

NextWrite ==
    \/ \E id \in CatIds : CategoryCreate(id, PlainCategory)
    \/ \E data \in ItemCreateDataWrite : ItemCreate("i1", data)
    \/ \E data \in ItemUpdateDataWrite : ItemUpdate("i1", data)
    \/ \E quantity \in WriteQuantities : GetPrice("i1", quantity, NoDatetime, <<>>)

SpecWrite == InitWrite /\ [][NextWrite]_vars

InvalidPricing(pricing) == ~validatePricingConfig(pricing).valid

InvalidPricingThrown(op, pricing) ==
    ThrownErrors(op, 400, Message("Invalid pricing configuration", 0, ""),
                 validatePricingConfig(pricing).errors)

StoredPricingsValid ==
    \A i \in DOMAIN items :
        items[i] # None => validatePricingConfig(Val(items[i]).pricing).valid

\* C24: item create and item update reject every pricing config that
\* validatePricingConfig reports invalid and leave the item store unchanged,
\* with a 400 'Invalid pricing configuration' error carrying the errors (a
\* request naming a category that is not found is refused with 404 before
\* its pricing is looked at); so every stored config, the ones calculatePrice
\* evaluates, passed validation.
C24_InvalidPricingRejectedAtWrite ==
    /\ [](StoredPricingsValid)
    /\ [][/\ \A data \in ItemCreateDataWrite :
                (InvalidPricing(data.pricing) /\ ItemCreate("i1", data))
                => /\ items' = items
                   /\ response'.status \in {400, 404}
                   /\ categories[data.category] # None
                      => response' = InvalidPricingThrown("item.create", data.pricing)
          /\ \A data \in ItemUpdateDataWrite :
                ( /\ data.pricing # None
                  /\ InvalidPricing(Val(data.pricing))
                  /\ ItemUpdate("i1", data) )
                => /\ items' = items
                   /\ items["i1"] # None
                      => response' = InvalidPricingThrown("item.update", Val(data.pricing))
         ]_vars

\* An update that carried overlapping tiers was refused with 400 and the
\* item keeps the well-formed config it had.
C24_Witness ==
    /\ response.op = "item.update"
    /\ response.status = 400
    /\ response.message = Message("Invalid pricing configuration", 0, "")
    /\ RuleLabel("Tier overlap detected between tiers", 1, 2) \in response.errors
    /\ items["i1"] # None
    /\ StoredPricingsValid

(***************************************************************************)
(* Every write of an add-on group is a save(), which runs the validate     *)
(* hook.  A group's name is its id, so the duplicate-name check of create  *)
(* and update has nothing to find.                                         *)
(***************************************************************************)
\* addonGroup.save(): the hook, then the write unless the hook failed; the
\* hook's Error has no status, so the controller answers 500
SaveGroup(op, id, group) ==
    LET validated == AddonGroupPreValidate(group)
    IN IF validated.min_selections > validated.max_selections
       THEN /\ response' = Thrown(op, 500,
                   Message("min_selections cannot be greater than max_selections", 0, ""))
            /\ UNCHANGED addonGroups
       ELSE /\ addonGroups' = [addonGroups EXCEPT ![id] = Some(validated)]
            /\ response' = Returned(op, 200, [id |-> id])

GroupNotFound(op) ==
    /\ response' = Thrown(op, 404, Message("Add-on group not found", 0, ""))
    /\ UNCHANGED addonGroups

NoGroupUpdate ==
    [type |-> None, selection_type |-> None, min_selections |-> None,
     max_selections |-> None, is_active |-> None]

\* Object.assign(addonGroup, data)
AssignedGroup(group, data) ==
    [group EXCEPT !.type = Assigned(data.type, group.type),
                  !.selection_type = Assigned(data.selection_type, group.selection_type),
                  !.min_selections = Assigned(data.min_selections, group.min_selections),
                  !.max_selections = Assigned(data.max_selections, group.max_selections),
                  !.is_active = Assigned(data.is_active, group.is_active)]

\* AddonService.update(id, data)
AddonGroupUpdate(id, data) ==
    /\ IF addonGroups[id] = None THEN GroupNotFound("addon.update")
       ELSE SaveGroup("addon.update", id, AssignedGroup(Val(addonGroups[id]), data))
    /\ UNCHANGED <<now, categories, subcategories, items, bookings, requests>>

\* AddonService.delete(id)
AddonGroupDelete(id) ==
    /\ IF addonGroups[id] = None THEN GroupNotFound("addon.delete")
       ELSE SaveGroup("addon.delete", id, [Val(addonGroups[id]) EXCEPT !.is_active = FALSE])
    /\ UNCHANGED <<now, categories, subcategories, items, bookings, requests>>

\* AddonService.restore(id)
AddonGroupRestore(id) ==
    /\ IF addonGroups[id] = None THEN GroupNotFound("addon.restore")
       ELSE SaveGroup("addon.restore", id, [Val(addonGroups[id]) EXCEPT !.is_active = TRUE])
    /\ UNCHANGED <<now, categories, subcategories, items, bookings, requests>>

\* AddonService.addAddon(groupId, addonData); addonData.id is the new
\* subdocument's _id
AddAddon(groupId, addonData) ==
    /\ IF addonGroups[groupId] = None THEN GroupNotFound("addon.addAddon")
       ELSE SaveGroup("addon.addAddon", groupId,
                [Val(addonGroups[groupId]) EXCEPT !.addons = Append(@, addonData)])
    /\ UNCHANGED <<now, categories, subcategories, items, bookings, requests>>

\* AddonService.removeAddon(groupId, addonId)
RemoveAddon(groupId, addonId) ==
    /\ IF addonGroups[groupId] = None THEN GroupNotFound("addon.removeAddon")
       ELSE IF \A j \in DOMAIN Val(addonGroups[groupId]).addons :
                  Val(addonGroups[groupId]).addons[j].id # addonId
       THEN /\ response' = Thrown("addon.removeAddon", 404,
                                  Message("Add-on not found", 0, ""))
            /\ UNCHANGED addonGroups
       ELSE SaveGroup("addon.removeAddon", groupId,
                [Val(addonGroups[groupId]) EXCEPT
                    !.addons = SelectSeq(@, LAMBDA a : a.id # addonId)])
    /\ UNCHANGED <<now, categories, subcategories, items, bookings, requests>>

(***************************************************************************)
(* One add-on group is created with every combination of type, selection   *)
(* type and bounds the request schema accepts up to MaxSelections, and     *)
(* then written through each service call.                                 *)
(***************************************************************************)
MaxSelections == 3

OneAddon == <<[id |-> "a1", price |-> 20 * Unit, is_active |-> TRUE]>>

GroupCreateData ==
    {[id |-> NoId, type |-> t, selection_type |-> st, min_selections |-> min,
      max_selections |-> max, addons |-> OneAddon, is_active |-> TRUE] :
        t \in ADDON_TYPES, st \in ADDON_GROUP_SELECTION,
        min \in 0..MaxSelections, max \in 1..MaxSelections}

GroupUpdateData ==
    {[NoGroupUpdate EXCEPT !.type = Some(t)] : t \in ADDON_TYPES}
    \cup {[NoGroupUpdate EXCEPT !.selection_type = Some(st)] : st \in ADDON_GROUP_SELECTION}
    \cup {[NoGroupUpdate EXCEPT !.min_selections = Some(min)] : min \in 0..MaxSelections}
    \cup {[NoGroupUpdate EXCEPT !.max_selections = Some(max)] : max \in 1..MaxSelections}
    \cup {[NoGroupUpdate EXCEPT !.selection_type = Some("MULTIPLE"),
                                !.max_selections = Some(MaxSelections)]}

NewAddon == [id |-> "a2", price |-> 5 * Unit, is_active |-> TRUE]

InitGroup == InitTax

NextGroup ==
    \/ \E data \in GroupCreateData : AddonGroupCreate("g1", data)
    \/ \E data \in GroupUpdateData : AddonGroupUpdate("g1", data)
    \/ AddonGroupDelete("g1")
    \/ AddonGroupRestore("g1")
    \/ /\ addonGroups["g1"] # None => Len(Val(addonGroups["g1"]).addons) < 2
       /\ AddAddon("g1", NewAddon)
    \/ \E data \in FrameAddonUpdateData : UpdateAddon("g1", "a1", data)
    \/ \E a \in {"a1", "a2"} : RemoveAddon("g1", a)

SpecGroup == InitGroup /\ [][NextGroup]_vars

\* The bounds a save of the group would check: the minimum of a mandatory
\* group is at least 1, the maximum of a single-choice group is 1.
BoundsCross(group) ==
    (IF group.type = "MANDATORY" /\ group.min_selections = 0
     THEN 1 ELSE group.min_selections)
    > (IF group.selection_type = "SINGLE" THEN 1 ELSE group.max_selections)

SelectionBoundsHold(group) ==
    /\ group.min_selections <= group.max_selections
    /\ group.selection_type = "SINGLE" => group.max_selections = 1
    /\ group.type = "MANDATORY" => group.min_selections >= 1

SavedGroupsBounded ==
    \A g \in DOMAIN addonGroups :
        addonGroups[g] # None => SelectionBoundsHold(Val(addonGroups[g]))

\* C25: every add-on group that has been saved (by create, update, addAddon,
\* updateAddon, removeAddon, delete or restore) has min_selections <=
\* max_selections, max_selections = 1 when its selection_type is SINGLE and
\* min_selections >= 1 when its type is MANDATORY; a save that would store
\* min_selections > max_selections fails and stores nothing.
C25_SavedGroupBoundsHold ==
    /\ [](SavedGroupsBounded)
    /\ [][/\ \A data \in GroupCreateData :
                (BoundsCross(data) /\ AddonGroupCreate("g1", data))
                => addonGroups' = addonGroups /\ response'.status = 500
          /\ \A data \in GroupUpdateData :
                ( /\ addonGroups["g1"] # None
                  /\ BoundsCross(AssignedGroup(Val(addonGroups["g1"]), data))
                  /\ AddonGroupUpdate("g1", data) )
                => addonGroups' = addonGroups /\ response'.status = 500
         ]_vars

\* An update that asked a single-choice group for a minimum of 2 was
\* refused, and the stored group keeps its bounds.
C25_Witness ==
    /\ response = Thrown("addon.update", 500,
                     Message("min_selections cannot be greater than max_selections", 0, ""))
    /\ addonGroups["g1"] # None
    /\ Val(addonGroups["g1"]).selection_type = "SINGLE"
    /\ Val(addonGroups["g1"]).type = "MANDATORY"
    /\ Val(addonGroups["g1"]).min_selections = 1
    /\ Val(addonGroups["g1"]).max_selections = 1

(***************************************************************************)
(* The lifecycle of bookings: two bookings of an item open at any time are *)
(* created, revised, cancelled and completed in every order.               *)
(***************************************************************************)
LifecycleIntervals ==
    {<<T(0, 9, 0, 0), T(1, 0, 0, 0)>>, <<T(1, 0, 0, 0), T(1, 1, 0, 0)>>}

LifecycleCreateData ==
    {BookingRequest("i1", 1, t[1], t[2]) : t \in LifecycleIntervals}

LifecycleUpdateData ==
    {[NoBookingUpdate EXCEPT !.status = Some(st)] : st \in BOOKING_STATUS}
    \cup {[NoBookingUpdate EXCEPT !.quantity = Some(2)],
          [NoBookingUpdate EXCEPT !.booking_date = Some(2)],
          [NoBookingUpdate EXCEPT !.start_time = Some(T(1, 1, 0, 0)),
                                  !.end_time = Some(T(1, 2, 0, 0))]}

InitLifecycle == InitBooking

NextLifecycle ==
    \/ CategoryCreate("c1", PlainCategory)
    \/ ItemCreate("i1", BookableItem(<<>>))
    \/ \E data \in LifecycleCreateData :
          \E datetime \in BookingDatetimes(data.booking_date, data.start_time) :
             Len(bookings) < MaxBookings /\ BookingCreate(data, datetime)
    \/ \E id \in 1..MaxBookings, data \in LifecycleUpdateData :
          \E datetime \in UpdateDatetimes(id, data) :
             BookingUpdate(id, data, datetime)
    \/ \E id \in 1..MaxBookings : BookingCancel(id)
    \/ \E id \in 1..MaxBookings : BookingComplete(id)

SpecLifecycle == InitLifecycle /\ [][NextLifecycle]_vars

Terminal(booking) == booking.status \in {"CANCELLED", "COMPLETED"}

\* The step refuses the call with 400 and writes no booking.
Refused400 == response'.status = 400 /\ bookings' = bookings

UpdateOf(id) ==
    \E data \in LifecycleUpdateData :
        \E datetime \in UpdateDatetimes(id, data) : BookingUpdate(id, data, datetime)

\* C26: CANCELLED and COMPLETED are terminal: on a cancelled booking cancel,
\* complete and update are each refused with 400, on a completed booking
\* cancel and update are; a refused call leaves the booking's status, time,
\* quantity and price_breakdown as they were, and no step takes a booking
\* from CANCELLED or COMPLETED to another status.
C26_CancelledAndCompletedAreTerminal ==
    [][\A id \in DOMAIN bookings :
          /\ Terminal(bookings[id]) => bookings'[id] = bookings[id]
          /\ (bookings[id].status = "CANCELLED"
                /\ (BookingCancel(id) \/ BookingComplete(id) \/ UpdateOf(id)))
             => Refused400
          /\ (bookings[id].status = "COMPLETED" /\ (BookingCancel(id) \/ UpdateOf(id)))
             => Refused400]_vars

\* An update of a completed booking was refused, next to a cancelled one.
C26_Witness ==
    /\ response = Thrown("booking.update", 400, Message("Cannot update booking", 0, "COMPLETED"))
    /\ Len(bookings) = 2
    /\ bookings[1].status = "COMPLETED"
    /\ bookings[2].status = "CANCELLED"

(***************************************************************************)
(* Soft delete and restore across the hierarchy: categories, a subcategory *)
(* and an item are created, updated, soft-deleted and restored.            *)
(***************************************************************************)
\* ItemService.delete(id)
ItemDelete(id) ==
    /\ IF items[id] = None
       THEN /\ response' = Thrown("item.delete", 404, Message("Item not found", 0, ""))
            /\ UNCHANGED items
       ELSE /\ items' = [items EXCEPT ![id] = Some([Val(@) EXCEPT !.is_active = FALSE])]
            /\ response' = Returned("item.delete", 200, [id |-> id])
    /\ UNCHANGED <<now, categories, subcategories, addonGroups, bookings, requests>>

\* ItemService.restore(id)
ItemRestore(id) ==
    /\ IF items[id] = None
       THEN /\ response' = Thrown("item.restore", 404, Message("Item not found", 0, ""))
            /\ UNCHANGED items
       ELSE /\ items' = [items EXCEPT ![id] = Some([Val(@) EXCEPT !.is_active = TRUE])]
            /\ response' = Returned("item.restore", 200, [id |-> id])
    /\ UNCHANGED <<now, categories, subcategories, addonGroups, bookings, requests>>

ItemCreateDataCascade ==
    {[category |-> c, subcategory |-> x, tax_applicable |-> None,
      tax_percentage |-> None, pricing |-> StaticPricing(TaxItemPrice), is_bookable |-> FALSE,
      availability_slots |-> <<>>, addon_groups |-> <<>>, is_active |-> TRUE] :
        c \in {"c1", NoId}, x \in {"s1", NoId}}

ItemUpdateDataCascade ==
    {[NoItemUpdate EXCEPT !.is_active = Some(active)] : active \in BOOLEAN}
    \cup {[NoItemUpdate EXCEPT !.category = Some(c)] : c \in CatIds}

CategoryUpdateDataCascade ==
    {[tax_applicable |-> None, tax_percentage |-> None, is_active |-> Some(active)] :
        active \in BOOLEAN}

InitCascade == InitTax

NextCascade ==
    \/ \E id \in CatIds : CategoryCreate(id, PlainCategory)
    \/ \E id \in CatIds, data \in CategoryUpdateDataCascade : CategoryUpdate(id, data)
    \/ \E id \in CatIds : CategoryDelete(id)
    \/ \E id \in CatIds : CategoryRestore(id)
    \/ \E data \in SubcategoryCreateDataRestore : SubcategoryCreate("s1", data)
    \/ \E data \in SubcategoryUpdateDataRestore : SubcategoryUpdate("s1", data)
    \/ SubcategoryDelete("s1")
    \/ SubcategoryRestore("s1")
    \/ \E data \in ItemCreateDataCascade : ItemCreate("i1", data)
    \/ \E data \in ItemUpdateDataCascade : ItemUpdate("i1", data)
    \/ ItemDelete("i1")
    \/ ItemRestore("i1")

SpecCascade == InitCascade /\ [][NextCascade]_vars

InactiveCategory(id) == categories[id] # None /\ ~Val(categories[id]).is_active

\* No subcategory of category c and no item referencing it is active.
NoActiveChild(c) ==
    /\ \A x \in SubIds :
          (subcategories[x] # None /\ Val(subcategories[x]).category = c)
          => ~Val(subcategories[x]).is_active
    /\ \A i \in ItemIds :
          (items[i] # None /\ Val(items[i]).category = c) => ~Val(items[i]).is_active

\* C27: whenever a category is inactive, every subcategory of it and every
\* item referencing it is inactive too.
C27_InactiveCategoryHasNoActiveChild ==
    \A c \in CatIds : InactiveCategory(c) => NoActiveChild(c)

\* The part of C27 the code keeps: the soft delete of a category leaves the
\* category, every subcategory of it and every item referencing it inactive.
CategoryDeleteDeactivatesChildren ==
    (response.op = "category.delete" /\ response.status = 200)
    => InactiveCategory(response.body.id) /\ NoActiveChild(response.body.id)

\* The selections of a request that name a group attached to the item.
NamedAttached(id, addons) ==
    {k \in DOMAIN addons :
        FindGroup(PopulateAddonGroups(Val(items[id]).addon_groups),
                  addons[k].addon_group) # None}

\* A quote of an item that is there and active, none of whose selections
\* names a group attached to it.
QuotedWithoutAttachedSelection ==
    /\ PriceAnswered
    /\ Quotable(response.request.id)
    /\ NamedAttached(response.request.id, response.request.addons) = {}

\* C28: a quote validates and prices only the groups its selections name: a
\* selection naming a group not attached to the item is skipped without
\* error and adds 0, and a MANDATORY group attached to the item that no
\* selection names is not checked; so a quote, and a booking create, with an
\* empty selection list succeeds with addons_total 0.
C28_OnlyNamedAttachedGroupsAreChecked ==
    /\ [](QuotedWithoutAttachedSelection
             => /\ response.status = 200
                /\ QuoteBody.addons_total = 0
                /\ QuoteBody.addons_details = <<>>)
    /\ [][\A data \in QuoteBookingData :
             ( /\ CreateRejection(data) = None
               /\ NamedAttached(data.item, data.selected_addons) = {}
               /\ findConflicts(data.item, data.booking_date, data.start_time,
                                data.end_time, NoBooking) = {}
               /\ \E datetime \in BookingDatetimes(data.booking_date, data.start_time) :
                     BookingCreate(data, datetime) )
             => /\ response'.status = 201
                /\ Len(bookings') = Len(bookings) + 1
                /\ bookings'[Len(bookings')].price_breakdown.addons_total = 0
                /\ \A k \in DOMAIN data.selected_addons :
                      bookings'[Len(bookings')].selected_addons[k].price = 0]_vars

\* An item carrying the mandatory group was quoted with no selection at all
\* and the quote succeeded with addons_total 0.
C28_Witness ==
    /\ QuotedWithoutAttachedSelection
    /\ response.request.addons = <<>>
    /\ Val(items[response.request.id]).addon_groups = <<"g1">>
    /\ Val(addonGroups["g1"]).type = "MANDATORY"
    /\ Val(addonGroups["g1"]).min_selections = 1
    /\ response.status = 200
    /\ QuoteBody.addons_total = 0

\* An item carrying no group was quoted with a selection of g1, which was
\* skipped.
UnattachedSelectionSkipped ==
    /\ QuotedWithoutAttachedSelection
    /\ response.request.addons # <<>>
    /\ response.status = 200

\* The add-ons of the answered group that calculateSelectedPrice charges:
\* those whose id is included in the selection and that are active.
ChargedAddons ==
    {k \in DOMAIN AnsweredGroup.addons :
        /\ AnsweredGroup.addons[k].id \in SeqToSet(response.request.addon_ids)
        /\ AnsweredGroup.addons[k].is_active}

\* The number of selections validateSelections counts for the answered group.
CountedSelections ==
    Len(ValidSelections(AnsweredGroup, response.request.addon_ids))

\* C29: for every selection list, the number of selections validateSelections
\* counts equals the number of add-ons calculateSelectedPrice charges, also
\* for a list that repeats the id of one active add-on.
C29_CountedEqualsCharged ==
    SelectionAnswered => CountedSelections = Cardinality(ChargedAddons)

NoRepeatedId(ids) ==
    \A j, k \in DOMAIN ids : ids[j] = ids[k] => j = k

\* For a selection list that repeats no id the two numbers agree.
CountedEqualsChargedWithoutRepeats ==
    (SelectionAnswered /\ NoRepeatedId(response.request.addon_ids))
       => CountedSelections = Cardinality(ChargedAddons)

\* A MULTIPLE group with min_selections 2 accepted a1 selected twice and
\* charged a1 once.
RepeatedIdCountedTwiceChargedOnce ==
    /\ SelectionAnswered
    /\ response.request.addon_ids = <<"a1", "a1">>
    /\ AnsweredGroup.min_selections = 2
    /\ response.status = 200
    /\ response.result.body.total_price = 20 * Unit

StartsBeforeEnd(booking) ==
    toMinutes(booking.start_time) < toMinutes(booking.end_time)

\* C30: every booking stored by create or update has start_time strictly
\* before end_time; a request whose end is at or before its start is never
\* stored.
C30_StoredBookingStartsBeforeEnd ==
    \A k \in DOMAIN bookings : StartsBeforeEnd(bookings[k])

\* A booking is stored by create with the times of the request as they came.
StoredTimesAreTheRequested ==
    [][\A data \in BookingCreateData :
          ( /\ response'.status = 201
            /\ \E datetime \in BookingDatetimes(data.booking_date, data.start_time) :
                  BookingCreate(data, datetime) )
          => /\ bookings'[Len(bookings')].start_time = data.start_time
             /\ bookings'[Len(bookings')].end_time = data.end_time]_vars

\* A booking from 10:30 to 10:00 was created with status 201.
EndBeforeStartStored ==
    /\ response.op = "booking.create"
    /\ response.status = 201
    /\ bookings # <<>>
    /\ bookings[Len(bookings)].start_time = T(1, 0, 3, 0)
    /\ bookings[Len(bookings)].end_time = T(1, 0, 0, 0)

\* An update was stored on a booking whose end is before its start.
UpdateCrossedTimes ==
    \E id \in DOMAIN bookings :
        /\ response.op = "booking.update"
        /\ response.status = 200
        /\ ~StartsBeforeEnd(bookings[id])

=============================================================================
